---- MODULE Spec2Model ----
(***************************************************************************)
(* ObjectAllocator (cs280-a1-oa/code/ObjectAllocator.cpp): a fixed-size    *)
(* object pool.  Pages are raw byte arrays obtained from the system heap;  *)
(* the free list and the page list are threaded through those bytes.       *)
(*                                                                         *)
(* Memory is modelled byte by byte.  A pointer is stored as ptrSize bytes, *)
(* least significant first; the null pointer is 0.  The unsigned 32-bit    *)
(* statistics are kept as their two's-complement bit pattern: the model    *)
(* value r stands for the unsigned value r when r >= 0 and for 2^32 + r    *)
(* when r < 0, so ++ and -- are + 1 and - 1 and a counter decremented      *)
(* below zero reads -1, that is 4294967295.                                *)
(***************************************************************************)
EXTENDS Integers, Sequences, FiniteSets, TLC

(***************************************************************************)
(* Bounds of the model.                                                    *)
(***************************************************************************)
\* An Allocate that would succeed is taken only while Allocations_ is below this.
MaxAllocs == 3
\* Number of page-sized regions the system heap can hand out.
NumBases == 2

(***************************************************************************)
(* Program constants.                                                      *)
(***************************************************************************)
ptrSize == 8
freedFlag == 0
allocFlag == 1
UNALLOCATED_PATTERN == 170
ALLOCATED_PATTERN == 187
FREED_PATTERN == 204
PAD_PATTERN == 221
ALIGN_PATTERN == 238
\* sizeof(unsigned) + 1 flag byte
BASIC_HEADER_SIZE == 5
\* sizeof(unsigned short) + sizeof(unsigned) + 1 flag byte, plus the user bytes
EXTENDED_FIXED_SIZE == 7
\* the granule of operator new[]: alignof(std::max_align_t)
HeapGranule == 2 * ptrSize

hbNone == "hbNone"
hbBasic == "hbBasic"
hbExtended == "hbExtended"
hbExternal == "hbExternal"

E_NO_MEMORY == "E_NO_MEMORY"
E_NO_PAGES == "E_NO_PAGES"
E_BAD_BOUNDARY == "E_BAD_BOUNDARY"
E_MULTIPLE_FREE == "E_MULTIPLE_FREE"
E_CORRUPTED_BLOCK == "E_CORRUPTED_BLOCK"
\* the operation returned normally
NoError == "none"
\* the operation read or wrote storage it does not own (null, released or
\* out-of-bounds): the language defines no outcome
Undefined == "undefined"
\* a list walk entered a cycle and does not return
Diverges == "diverges"
OAExceptions == {E_NO_MEMORY, E_NO_PAGES, E_BAD_BOUNDARY, E_MULTIPLE_FREE, E_CORRUPTED_BLOCK}

\* A pointer value read from bytes that do not encode an address of the
\* modelled address space: non-null, equal to no modelled address.
WildPtr == 0 - 1

(***************************************************************************)
(* Header block description (HeaderBlockInfo in ObjectAllocator.h).        *)
(***************************************************************************)
HeaderSize(type, additional) ==
    CASE type = hbBasic -> BASIC_HEADER_SIZE
      [] type = hbExtended -> additional + EXTENDED_FIXED_SIZE
      [] type = hbExternal -> ptrSize
      [] OTHER -> 0

HBlockInfo(type, additional) ==
    [type_ |-> type, size_ |-> HeaderSize(type, additional), additional_ |-> additional]

\* OAConfig as the client fills it in; the alignment sizes start at 0.
OAConfig(cpp, opp, maxPages, debug, pad, hb, align) ==
    [UseCPPMemManager_ |-> cpp, ObjectsPerPage_ |-> opp, MaxPages_ |-> maxPages,
     DebugOn_ |-> debug, PadBytes_ |-> pad, HBlockInfo_ |-> hb, Alignment_ |-> align,
     LeftAlignSize_ |-> 0, InterAlignSize_ |-> 0]

(***************************************************************************)
(* Unsigned 32-bit counters as bit patterns.                               *)
(***************************************************************************)
U32Less(a, b) == IF (a < 0) = (b < 0) THEN a < b ELSE b < 0
U32Max(a, b) == IF U32Less(a, b) THEN b ELSE a

\* 2^64 mod s, for size_t arithmetic that wraps
TwoPow64Mod(s) ==
    LET r16 == 65536 % s
        r32 == (r16 * r16) % s
    IN  (r32 * r32) % s

\* (a - b) as a size_t, taken modulo s
SizeTDiffMod(a, b, s) ==
    IF a >= b THEN (a - b) % s ELSE (TwoPow64Mod(s) + ((a - b) % s)) % s

(***************************************************************************)
(* Bytes.                                                                  *)
(***************************************************************************)
RECURSIVE Pow256(_)
Pow256(i) == IF i = 0 THEN 1 ELSE 256 * Pow256(i - 1)

\* byte i of the little-endian encoding of v (two's complement for v < 0)
ByteOf(v, i) == IF i > 2 THEN (IF v < 0 THEN 255 ELSE 0) ELSE (v \div Pow256(i)) % 256

\* memset / WritePatternToBlock body: n bytes of pattern at a.  The callers
\* establish that the bytes written exist.
Fill(m, a, n, pattern) == [x \in a..(a + n - 1) |-> pattern] @@ m

\* store the n-byte little-endian encoding of v at a
WriteLE(m, a, n, v) == [x \in a..(a + n - 1) |-> ByteOf(v, x - a)] @@ m

\* load an n-byte little-endian unsigned value; WildPtr when it is no
\* address of the model
ReadLE(m, a, n) ==
    IF \E i \in 3..(n - 1) : m[a + i] # 0
    THEN WildPtr
    ELSE m[a] + 256 * (IF n > 1 THEN m[a + 1] ELSE 0) + 65536 * (IF n > 2 THEN m[a + 2] ELSE 0)

ReadPtr(m, a) == ReadLE(m, a, ptrSize)

\* operator new[]: the n bytes at a come to exist, with indeterminate contents
\* that the caller overwrites at once
NewBytes(m, a, n) == m @@ [x \in a..(a + n - 1) |-> 0]
\* operator delete[]: the n bytes at a cease to exist
DeleteBytes(m, a, n) == [x \in DOMAIN m \ (a..(a + n - 1)) |-> m[x]]
WritePtr(m, a, v) == WriteLE(m, a, ptrSize, v)

(***************************************************************************)
(* The system heap: page-sized regions at BaseAddr(ps, 1..NumBases), each  *)
(* a multiple of HeapGranule, and small blocks above them.                 *)
(***************************************************************************)
PageSpan(ps) == HeapGranule * ((ps + HeapGranule - 1) \div HeapGranule)
BaseAddr(ps, k) == k * PageSpan(ps)
Bases(ps) == {BaseAddr(ps, k) : k \in 1..NumBases}
ArenaEnd(ps) == BaseAddr(ps, NumBases + 1)
BlockAddr(ps, i) == ArenaEnd(ps) + HeapGranule * i
\* one small block for each Allocate the model takes
BlockAddrs(ps) == {BlockAddr(ps, i) : i \in 1..MaxAllocs}

\* Mutation of Constructor: the pad bytes are counted once in interAlignSize.
ConstructorPadOnce(ObjectSize, configuration) ==
    LET A == configuration.Alignment_
        hs == configuration.HBlockInfo_.size_
        pad == configuration.PadBytes_
        leftAlignSize == ptrSize + hs + pad
        leftRem == IF A > 0 THEN leftAlignSize % A ELSE 0
        left == IF A > 0 /\ leftRem # 0 THEN A - leftRem ELSE configuration.LeftAlignSize_
        interAlignSize == ObjectSize + hs + pad
        interRem == IF A > 0 THEN interAlignSize % A ELSE 0
        inter == IF A > 0 /\ interRem # 0 THEN A - interRem ELSE configuration.InterAlignSize_
        totalBlockSize == configuration.ObjectsPerPage_ * (hs + pad + ObjectSize + pad + inter)
        allocateSize == ptrSize + left + totalBlockSize - inter
    IN  [config |-> [configuration EXCEPT !.LeftAlignSize_ = left, !.InterAlignSize_ = inter],
         stats |-> [ObjectSize_ |-> ObjectSize, PageSize_ |-> allocateSize,
                    FreeObjects_ |-> 0, ObjectsInUse_ |-> 0, PagesInUse_ |-> 0,
                    MostObjects_ |-> 0, Allocations_ |-> 0, Deallocations_ |-> 0]]

(***************************************************************************)
(* ObjectAllocator::ObjectAllocator, up to the call of CreatePage.         *)
(***************************************************************************)
Constructor(ObjectSize, configuration) ==
    LET A == configuration.Alignment_
        hs == configuration.HBlockInfo_.size_
        pad == configuration.PadBytes_
        leftAlignSize == ptrSize + hs + pad
        leftRem == IF A > 0 THEN leftAlignSize % A ELSE 0
        left == IF A > 0 /\ leftRem # 0 THEN A - leftRem ELSE configuration.LeftAlignSize_
        interAlignSize == ObjectSize + hs + pad * 2
        interRem == IF A > 0 THEN interAlignSize % A ELSE 0
        inter == IF A > 0 /\ interRem # 0 THEN A - interRem ELSE configuration.InterAlignSize_
        totalBlockSize == configuration.ObjectsPerPage_ * (hs + pad + ObjectSize + pad + inter)
        allocateSize == ptrSize + left + totalBlockSize - inter
    IN  [config |-> [configuration EXCEPT !.LeftAlignSize_ = left, !.InterAlignSize_ = inter],
         stats |-> [ObjectSize_ |-> ObjectSize, PageSize_ |-> allocateSize,
                    FreeObjects_ |-> 0, ObjectsInUse_ |-> 0, PagesInUse_ |-> 0,
                    MostObjects_ |-> 0, Allocations_ |-> 0, Deallocations_ |-> 0]]

(***************************************************************************)
(* ObjectAllocator::CreatePage on the page rawMem the system heap returned.*)
(* ok is FALSE when a write of the layout loop falls outside the page.     *)
(***************************************************************************)
RECURSIVE CreatePageLoop(_, _, _, _, _, _)
CreatePageLoop(cfg, st, m, fl, advancePtr, pagePtrEnd) ==
    IF advancePtr = pagePtrEnd
    THEN [mem |-> m, freeList |-> fl, ok |-> TRUE]
    ELSE LET hs == cfg.HBlockInfo_.size_
             pad == cfg.PadBytes_
             a1 == advancePtr + hs
             a2 == a1 + pad
             a3 == a2 + st.ObjectSize_
             a4 == a3 + pad
             m1 == Fill(m, advancePtr, hs, 0)
             m2 == Fill(m1, a1, pad, PAD_PATTERN)
             m3 == WritePtr(m2, a2, fl)
             m4 == Fill(m3, a3, pad, PAD_PATTERN)
             last == a4 = pagePtrEnd
             m5 == IF last THEN m4 ELSE Fill(m4, a4, cfg.InterAlignSize_, ALIGN_PATTERN)
             a5 == IF last THEN a4 ELSE a4 + cfg.InterAlignSize_
         IN  IF a2 + ptrSize > pagePtrEnd \/ a4 > pagePtrEnd \/ a5 > pagePtrEnd
             THEN [mem |-> m, freeList |-> fl, ok |-> FALSE]
             ELSE CreatePageLoop(cfg, st, m5, a2, a5, pagePtrEnd)

\* Mutation of CreatePage: the blocks of the new page are linked from the
\* lowest address up, the lowest at the head.
RECURSIVE LinkUpwards(_, _, _, _, _)
LinkUpwards(m, first, stride, i, next) ==
    IF i < 0 THEN m
    ELSE LinkUpwards(WritePtr(m, first + i * stride, next), first, stride, i - 1,
                     first + i * stride)

CreatePageLowestAtHead(cfg, st, m, pl, fl, rawMem) ==
    LET m0 == Fill(NewBytes(m, rawMem, st.PageSize_), rawMem, st.PageSize_, UNALLOCATED_PATTERN)
        m1 == WritePtr(m0, rawMem, pl)
        m2 == Fill(m1, rawMem + ptrSize, cfg.LeftAlignSize_, ALIGN_PATTERN)
        loop == CreatePageLoop(cfg, st, m2, fl, rawMem + ptrSize + cfg.LeftAlignSize_,
                               rawMem + st.PageSize_)
        first == rawMem + ptrSize + cfg.LeftAlignSize_ + cfg.HBlockInfo_.size_ + cfg.PadBytes_
        stride == cfg.HBlockInfo_.size_ + 2 * cfg.PadBytes_ + st.ObjectSize_
                      + cfg.InterAlignSize_
    IN  [mem |-> IF loop.ok
                 THEN LinkUpwards(loop.mem, first, stride, cfg.ObjectsPerPage_ - 1, fl)
                 ELSE loop.mem,
         pageList |-> rawMem, freeList |-> IF loop.ok THEN first ELSE loop.freeList,
         ok |-> loop.ok,
         stats |-> [st EXCEPT !.PagesInUse_ = @ + 1,
                              !.FreeObjects_ = @ + cfg.ObjectsPerPage_]]

CreatePage(cfg, st, m, pl, fl, rawMem) ==
    LET m0 == Fill(NewBytes(m, rawMem, st.PageSize_), rawMem, st.PageSize_, UNALLOCATED_PATTERN)
        m1 == WritePtr(m0, rawMem, pl)
        m2 == Fill(m1, rawMem + ptrSize, cfg.LeftAlignSize_, ALIGN_PATTERN)
        loop == CreatePageLoop(cfg, st, m2, fl, rawMem + ptrSize + cfg.LeftAlignSize_,
                               rawMem + st.PageSize_)
    IN  [mem |-> loop.mem, pageList |-> rawMem, freeList |-> loop.freeList, ok |-> loop.ok,
         stats |-> [st EXCEPT !.PagesInUse_ = @ + 1,
                              !.FreeObjects_ = @ + cfg.ObjectsPerPage_]]

(***************************************************************************)
(* The configurations the allocator is constructed with.                   *)
(***************************************************************************)
CfgPlain ==
    [objectSize |-> 8, cfg |-> OAConfig(FALSE, 2, 1, TRUE, 0, HBlockInfo(hbNone, 0), 0)]
CfgBasic ==
    [objectSize |-> 8, cfg |-> OAConfig(FALSE, 2, 0, TRUE, 1, HBlockInfo(hbBasic, 0), 0)]
CfgExternal ==
    [objectSize |-> 8, cfg |-> OAConfig(FALSE, 2, 2, TRUE, 0, HBlockInfo(hbExternal, 0), 0)]
CfgExtended ==
    [objectSize |-> 8, cfg |-> OAConfig(FALSE, 1, 2, FALSE, 1, HBlockInfo(hbExtended, 1), 4)]
CfgBypass ==
    [objectSize |-> 8, cfg |-> OAConfig(TRUE, 1, 1, TRUE, 0, HBlockInfo(hbNone, 0), 0)]
Configs == {CfgPlain, CfgBasic, CfgExternal, CfgExtended, CfgBypass}
\* an object larger than a pointer, the debug checks off
CfgWide ==
    [objectSize |-> 10, cfg |-> OAConfig(FALSE, 2, 1, FALSE, 0, HBlockInfo(hbNone, 0), 0)]

VARIABLES
    config,     \* OAConfig, alignment sizes filled in by the constructor
    stats,      \* OAStats
    pageList,   \* address of the first page, 0 when there is none
    freeList,   \* address of the first free block, 0 when there is none
    mem,        \* the bytes of the pages obtained and not yet deleted, by address
    heap,       \* base addresses of the pages obtained and not yet deleted
    descs,      \* the live MemBlockInfo records, by address
    objects,    \* the live blocks handed out in bypass mode
    held,       \* addresses the client received from Allocate and has not released
    last,       \* the most recent call: operation, argument, result
    hist        \* what has happened so far in this run: compacted, a call of
                \* FreeEmptyPages has released a page; probed, the client
                \* has passed Free an address to see what Free makes of it

vars == <<config, stats, pageList, freeList, mem, heap, descs, objects, held, last, hist>>

\* FreeObjects_, ObjectsInUse_ and the head of the free list at one moment
Snap(st, fl) == [free |-> st.FreeObjects_, inUse |-> st.ObjectsInUse_, head |-> fl]
NoSnap == [free |-> 0, inUse |-> 0, head |-> 0]

\* The record of a call.  built: the call created a page.  follows: for a
\* Free, "Allocate" when the call before it was the Allocate that returned
\* its argument, "Free" when it was a Free of the same argument that returned
\* normally.  pre: for an Allocate that returned a block, the snapshot taken
\* on entry; a Free that follows it carries the snapshot and built on.
\* called: for DumpMemoryInUse and ValidatePages, the addresses the callback
\* was called with, in order.
Call(op, arg, ret, err) ==
    [op |-> op, arg |-> arg, ret |-> ret, err |-> err, built |-> FALSE,
     follows |-> "other", pre |-> NoSnap, called |-> << >>]

InitWith(Cs) ==
    \E c \in Cs, k \in 1..NumBases :
        LET ctor == Constructor(c.objectSize, c.cfg)
            ps == ctor.stats.PageSize_
            page == CreatePage(ctor.config, ctor.stats, << >>, 0, 0,
                               BaseAddr(ps, k))
        IN  /\ page.ok
            /\ config = ctor.config
            /\ stats = page.stats
            /\ pageList = page.pageList
            /\ freeList = page.freeList
            /\ mem = page.mem
            /\ heap = {BaseAddr(ps, k)}
            /\ descs = << >>
            /\ objects = {}
            /\ held = {}
            /\ last = Call("ObjectAllocator", 0, 0, NoError)
            /\ hist = [compacted |-> FALSE, probed |-> FALSE]

Init == InitWith(Configs)

(***************************************************************************)
(* The allocator's mutable state as one value, so that a handler can be    *)
(* followed through its intermediate states.                               *)
(***************************************************************************)
Cur == [mem |-> mem, freeList |-> freeList, pageList |-> pageList, stats |-> stats,
        heap |-> heap, descs |-> descs, objects |-> objects]

\* the n bytes at a lie inside one page the allocator owns
Live(s, a, n) == \E b \in s.heap : b <= a /\ a + n <= b + stats.PageSize_

Val(ret) == [ret |-> ret, err |-> NoError]
Bad(err) == [ret |-> FALSE, err |-> err]

\* offset of the first data block of a page / distance between data blocks
pageToDataAdv == ptrSize + config.LeftAlignSize_ + config.HBlockInfo_.size_ + config.PadBytes_
objAdvancement ==
    stats.ObjectSize_ + config.PadBytes_ * 2 + config.InterAlignSize_ + config.HBlockInfo_.size_

(***************************************************************************)
(* UpdateAllocationStats / UpdateDeallocationStats                         *)
(***************************************************************************)
\* Mutation of UpdateAllocationStats: MostObjects_ is left as it is.
UpdateAllocationStatsNoMost(st) ==
    [st EXCEPT !.Allocations_ = @ + 1,
               !.ObjectsInUse_ = @ + 1,
               !.FreeObjects_ = @ - 1]

UpdateAllocationStats(st) ==
    [st EXCEPT !.Allocations_ = @ + 1,
               !.ObjectsInUse_ = @ + 1,
               !.MostObjects_ = U32Max(@, st.ObjectsInUse_ + 1),
               !.FreeObjects_ = @ - 1]

\* Mutation of UpdateDeallocationStats: FreeObjects_ is not counted up.
UpdateDeallocationStatsNoFree(st) ==
    [st EXCEPT !.Deallocations_ = @ + 1,
               !.ObjectsInUse_ = @ - 1]

\* Mutation of UpdateDeallocationStats: ObjectsInUse_ is not counted down.
UpdateDeallocationStatsInUseStays(st) ==
    [st EXCEPT !.FreeObjects_ = @ + 1,
               !.Deallocations_ = @ + 1]

UpdateDeallocationStats(st) ==
    [st EXCEPT !.FreeObjects_ = @ + 1,
               !.Deallocations_ = @ + 1,
               !.ObjectsInUse_ = @ - 1]

(***************************************************************************)
(* ObjectAllocator::IsMemoryFreed: scan of the free list.                  *)
(***************************************************************************)
RECURSIVE IsMemoryFreedScan(_, _, _, _)
IsMemoryFreedScan(s, currBlock, obj, seen) ==
    IF currBlock = 0 THEN Val(FALSE)
    ELSE IF obj = currBlock THEN Val(TRUE)
    ELSE IF ~Live(s, currBlock, ptrSize) THEN Bad(Undefined)
    ELSE IF currBlock \in seen THEN Bad(Diverges)
    ELSE IsMemoryFreedScan(s, ReadPtr(s.mem, currBlock), obj, seen \cup {currBlock})

\* Mutation of IsMemoryFreed: the scan starts at the second node.
IsMemoryFreedSkipsHead(s, objBlock) ==
    IF s.freeList = 0 \/ ~Live(s, s.freeList, ptrSize) THEN Val(FALSE)
    ELSE IsMemoryFreedScan(s, ReadPtr(s.mem, s.freeList), objBlock, {})

IsMemoryFreed(s, objBlock) == IsMemoryFreedScan(s, s.freeList, objBlock, {})

(***************************************************************************)
(* ObjectAllocator::FindPage: the page whose byte range holds objBlock.    *)
(***************************************************************************)
\* Mutation of InPageRange: the byte after the page counts as inside it.
InPageRangeInclusive(objBlock, page) ==
    page # WildPtr /\ objBlock >= page /\ objBlock <= page + stats.PageSize_

InPageRange(objBlock, page) ==
    page # WildPtr /\ objBlock >= page /\ objBlock < page + stats.PageSize_

RECURSIVE FindPageScan(_, _, _, _)
FindPageScan(s, page, objBlock, seen) ==
    IF page = 0 THEN Val(0)
    ELSE IF InPageRange(objBlock, page) THEN Val(page)
    ELSE IF ~Live(s, page, ptrSize) THEN Bad(Undefined)
    ELSE IF page \in seen THEN Bad(Diverges)
    ELSE FindPageScan(s, ReadPtr(s.mem, page), objBlock, seen \cup {page})

FindPage(s, objBlock) == FindPageScan(s, s.pageList, objBlock, {})

(***************************************************************************)
(* ObjectAllocator::IsValidAlignment                                       *)
(***************************************************************************)
IsValidAlignment(objBlock, pageLocation) ==
    IF pageLocation = 0 THEN FALSE
    ELSE LET dataBlockStart == pageLocation + pageToDataAdv
         IN  SizeTDiffMod(objBlock, dataBlockStart, objAdvancement) = 0

(***************************************************************************)
(* ObjectAllocator::IsPaddingCorrupted                                     *)
(***************************************************************************)
RECURSIVE IsPaddingCorruptedLoop(_, _, _, _)
IsPaddingCorruptedLoop(s, padStart, padEnd, i) ==
    IF i >= config.PadBytes_ THEN Val(FALSE)
    ELSE IF ~Live(s, padStart + i, 1) THEN Bad(Undefined)
    ELSE IF s.mem[padStart + i] # PAD_PATTERN THEN Val(TRUE)
    ELSE IF ~Live(s, padEnd + i, 1) THEN Bad(Undefined)
    ELSE IF s.mem[padEnd + i] # PAD_PATTERN THEN Val(TRUE)
    ELSE IsPaddingCorruptedLoop(s, padStart, padEnd, i + 1)

\* Mutation of IsPaddingCorrupted: only the left pad band is read.
IsPaddingCorruptedLeftOnly(s, objBlock) ==
    Val(\E i \in 1..config.PadBytes_ : s.mem[objBlock - i] # PAD_PATTERN)

IsPaddingCorrupted(s, objBlock) ==
    IF config.PadBytes_ = 0 THEN Val(FALSE)
    ELSE LET padStart == objBlock - config.PadBytes_
             padEnd == padStart + stats.ObjectSize_ + config.PadBytes_
         IN  IsPaddingCorruptedLoop(s, padStart, padEnd, 0)

(***************************************************************************)
(* ObjectAllocator::UpdateHeaderInfo.  The result is the state with its    *)
(* err field set when the header bytes are not the allocator's.            *)
(***************************************************************************)
Ok(s) == [s |-> s, err |-> NoError]
Fail(s, err) == [s |-> s, err |-> err]

\* Mutation of UpdateHeaderInfo: the allocation number written is the value
\* Allocations_ had before this Allocate.
UpdateHeaderInfoStale(s, objBlock, flag) ==
    LET headerStart == objBlock - config.PadBytes_ - config.HBlockInfo_.size_
        isFromAllocateFunc == flag = allocFlag
        allocNum == IF isFromAllocateFunc THEN s.stats.Allocations_ - 1 ELSE 0
        type == config.HBlockInfo_.type_
    IN  CASE type = hbBasic ->
               IF ~Live(s, headerStart, BASIC_HEADER_SIZE) THEN Fail(s, Undefined)
               ELSE LET m1 == WriteLE(s.mem, headerStart, 4, allocNum)
                        m2 == Fill(m1, headerStart + 4, 1, flag)
                    IN  Ok([s EXCEPT !.mem = m2])
          [] type = hbExtended ->
               LET h1 == headerStart + config.HBlockInfo_.additional_
               IN  IF ~Live(s, h1, EXTENDED_FIXED_SIZE) THEN Fail(s, Undefined)
                   ELSE LET useCounter == ReadLE(s.mem, h1, 2)
                            m0 == IF isFromAllocateFunc
                                  THEN WriteLE(s.mem, h1, 2, (useCounter + 1) % 65536)
                                  ELSE s.mem
                            m1 == WriteLE(m0, h1 + 2, 4, allocNum)
                            m2 == Fill(m1, h1 + 6, 1, flag)
                        IN  Ok([s EXCEPT !.mem = m2])
          [] type = hbExternal ->
               IF ~Live(s, headerStart, ptrSize) THEN Fail(s, Undefined)
               ELSE LET infoBlock == ReadPtr(s.mem, headerStart)
                    IN  IF infoBlock = 0 THEN Ok(s)
                        ELSE IF infoBlock \notin DOMAIN s.descs THEN Fail(s, Undefined)
                        ELSE Ok([s EXCEPT !.descs[infoBlock].in_use = isFromAllocateFunc,
                                          !.descs[infoBlock].alloc_num = allocNum])
          [] OTHER -> Ok(s)

\* Mutation of UpdateHeaderInfo: the use counter is counted up by Free too.
UpdateHeaderInfoCountsFrees(s, objBlock, flag) ==
    LET headerStart == objBlock - config.PadBytes_ - config.HBlockInfo_.size_
        isFromAllocateFunc == flag = allocFlag
        allocNum == IF isFromAllocateFunc THEN s.stats.Allocations_ ELSE 0
        type == config.HBlockInfo_.type_
    IN  CASE type = hbBasic ->
               IF ~Live(s, headerStart, BASIC_HEADER_SIZE) THEN Fail(s, Undefined)
               ELSE LET m1 == WriteLE(s.mem, headerStart, 4, allocNum)
                        m2 == Fill(m1, headerStart + 4, 1, flag)
                    IN  Ok([s EXCEPT !.mem = m2])
          [] type = hbExtended ->
               LET h1 == headerStart + config.HBlockInfo_.additional_
               IN  IF ~Live(s, h1, EXTENDED_FIXED_SIZE) THEN Fail(s, Undefined)
                   ELSE LET useCounter == ReadLE(s.mem, h1, 2)
                            m0 == WriteLE(s.mem, h1, 2, (useCounter + 1) % 65536)
                            m1 == WriteLE(m0, h1 + 2, 4, allocNum)
                            m2 == Fill(m1, h1 + 6, 1, flag)
                        IN  Ok([s EXCEPT !.mem = m2])
          [] type = hbExternal ->
               IF ~Live(s, headerStart, ptrSize) THEN Fail(s, Undefined)
               ELSE LET infoBlock == ReadPtr(s.mem, headerStart)
                    IN  IF infoBlock = 0 THEN Ok(s)
                        ELSE IF infoBlock \notin DOMAIN s.descs THEN Fail(s, Undefined)
                        ELSE Ok([s EXCEPT !.descs[infoBlock].in_use = isFromAllocateFunc,
                                          !.descs[infoBlock].alloc_num = allocNum])
          [] OTHER -> Ok(s)

UpdateHeaderInfo(s, objBlock, flag) ==
    LET headerStart == objBlock - config.PadBytes_ - config.HBlockInfo_.size_
        isFromAllocateFunc == flag = allocFlag
        allocNum == IF isFromAllocateFunc THEN s.stats.Allocations_ ELSE 0
        type == config.HBlockInfo_.type_
    IN  CASE type = hbBasic ->
               IF ~Live(s, headerStart, BASIC_HEADER_SIZE) THEN Fail(s, Undefined)
               ELSE LET m1 == WriteLE(s.mem, headerStart, 4, allocNum)
                        m2 == Fill(m1, headerStart + 4, 1, flag)
                    IN  Ok([s EXCEPT !.mem = m2])
          [] type = hbExtended ->
               LET h1 == headerStart + config.HBlockInfo_.additional_
               IN  IF ~Live(s, h1, EXTENDED_FIXED_SIZE) THEN Fail(s, Undefined)
                   ELSE LET useCounter == ReadLE(s.mem, h1, 2)
                            m0 == IF isFromAllocateFunc
                                  THEN WriteLE(s.mem, h1, 2, (useCounter + 1) % 65536)
                                  ELSE s.mem
                            m1 == WriteLE(m0, h1 + 2, 4, allocNum)
                            m2 == Fill(m1, h1 + 6, 1, flag)
                        IN  Ok([s EXCEPT !.mem = m2])
          [] type = hbExternal ->
               IF ~Live(s, headerStart, ptrSize) THEN Fail(s, Undefined)
               ELSE LET infoBlock == ReadPtr(s.mem, headerStart)
                    IN  IF infoBlock = 0 THEN Ok(s)
                        ELSE IF infoBlock \notin DOMAIN s.descs THEN Fail(s, Undefined)
                        ELSE Ok([s EXCEPT !.descs[infoBlock].in_use = isFromAllocateFunc,
                                          !.descs[infoBlock].alloc_num = allocNum])
          [] OTHER -> Ok(s)

(***************************************************************************)
(* ObjectAllocator::AllocateExternalHeader.  infoBlock is the address the  *)
(* system heap returns for the MemBlockInfo (0: std::bad_alloc), labelOk   *)
(* whether it grants the label buffer.                                     *)
(***************************************************************************)
NullLabel == "nullptr"
Labels == {NullLabel, "a"}
Uninitialised == "uninitialised"

AllocateExternalHeader(s, objBlock, label, infoBlock, labelOk) ==
    LET headerStart == objBlock - config.PadBytes_ - config.HBlockInfo_.size_
        fresh == [in_use |-> FALSE, alloc_num |-> 0, label |-> Uninitialised]
        withInfo == [s EXCEPT !.descs = [d \in DOMAIN s.descs \cup {infoBlock} |->
                                            IF d = infoBlock THEN fresh ELSE s.descs[d]]]
        text == IF label = NullLabel THEN "" ELSE label
    IN  IF infoBlock = 0 THEN Fail(s, E_NO_MEMORY)
        ELSE IF ~labelOk THEN Fail(withInfo, E_NO_MEMORY)
        ELSE IF ~Live(s, headerStart, ptrSize) THEN Fail(withInfo, Undefined)
        ELSE Ok([withInfo EXCEPT !.descs[infoBlock].label = text,
                                 !.mem = WritePtr(s.mem, headerStart, infoBlock)])

(***************************************************************************)
(* ObjectAllocator::FreeExternalHeader                                     *)
(***************************************************************************)
FreeExternalHeader(s, objBlock) ==
    LET headerStart == objBlock - config.PadBytes_ - config.HBlockInfo_.size_
    IN  IF ~Live(s, headerStart, ptrSize) THEN Fail(s, Undefined)
        ELSE LET infoBlock == ReadPtr(s.mem, headerStart)
             IN  IF infoBlock \notin DOMAIN s.descs THEN Fail(s, Undefined)
                 ELSE Ok([s EXCEPT !.descs = [d \in DOMAIN s.descs \ {infoBlock} |-> s.descs[d]],
                                   !.mem = WritePtr(s.mem, headerStart, 0)])

(***************************************************************************)
(* ObjectAllocator::Allocate.  rawMem is the page the system heap returns  *)
(* should CreatePage ask for one, block the small block it returns for a   *)
(* MemBlockInfo or a bypass-mode object (0: std::bad_alloc).               *)
(***************************************************************************)
Out(s, ret, err, built) == [s |-> s, ret |-> ret, err |-> err, built |-> built]
BadAlloc == "std::bad_alloc"

\* Mutation of PopFreeList: the head of the free list stays.
PopFreeListStays(s, freeBlock) == freeBlock

\* freeList = freeList->Next
PopFreeList(s, freeBlock) == ReadPtr(s.mem, freeBlock)

\* Mutation of CanCreatePage: a page is created when the limit is reached.
CanCreatePageAtLimit(s) ==
    config.MaxPages_ = 0 \/ ~U32Less(config.MaxPages_, s.stats.PagesInUse_)

\* the page limit: a page may be created when MaxPages_ is 0 or not reached
CanCreatePage(s) == config.MaxPages_ = 0 \/ U32Less(s.stats.PagesInUse_, config.MaxPages_)

AllocateBlock(s, label, block, labelOk, built) ==
    LET freeBlock == s.freeList
    IN  IF ~Live(s, freeBlock, ptrSize) \/ ~Live(s, freeBlock, stats.ObjectSize_)
        THEN Out(s, 0, Undefined, built)
        ELSE LET s1 == [s EXCEPT !.freeList = PopFreeList(s, freeBlock),
                                 !.mem = Fill(s.mem, freeBlock, stats.ObjectSize_,
                                              ALLOCATED_PATTERN),
                                 !.stats = UpdateAllocationStats(s.stats)]
                 ext == IF config.HBlockInfo_.type_ = hbExternal
                        THEN AllocateExternalHeader(s1, freeBlock, label, block, labelOk)
                        ELSE Ok(s1)
                 upd == UpdateHeaderInfo(ext.s, freeBlock, allocFlag)
             IN  IF ext.err # NoError THEN Out(ext.s, 0, ext.err, built)
                 ELSE IF upd.err # NoError THEN Out(upd.s, 0, upd.err, built)
                 ELSE Out(upd.s, freeBlock, NoError, built)

AllocateResult(label, rawMem, block, labelOk) ==
    IF config.UseCPPMemManager_
    THEN LET s1 == [Cur EXCEPT !.stats = UpdateAllocationStats(stats)]
         IN  IF block = 0 THEN Out(s1, 0, BadAlloc, FALSE)
             ELSE Out([s1 EXCEPT !.objects = @ \cup {block}], block, NoError, FALSE)
    ELSE IF freeList # 0 THEN AllocateBlock(Cur, label, block, labelOk, FALSE)
    ELSE IF ~CanCreatePage(Cur)
         THEN Out(Cur, 0, E_NO_PAGES, FALSE)
    ELSE IF rawMem = 0 THEN Out(Cur, 0, E_NO_MEMORY, FALSE)
    ELSE LET pg == CreatePage(config, stats, mem, pageList, freeList, rawMem)
             s1 == [Cur EXCEPT !.mem = pg.mem, !.pageList = pg.pageList,
                               !.freeList = pg.freeList, !.stats = pg.stats,
                               !.heap = @ \cup {rawMem}]
         IN  IF ~pg.ok THEN Out(Cur, 0, Undefined, FALSE)
             ELSE AllocateBlock(s1, label, block, labelOk, TRUE)

(***************************************************************************)
(* ObjectAllocator::Free                                                   *)
(***************************************************************************)
\* Mutation of DebugChecks: every address passes.
DebugChecksPassAll(s, objBlock) == NoError

\* the debug checks of Free, in the order of the code; NoError when all pass
DebugChecks(s, objBlock) ==
    LET freed == IsMemoryFreed(s, objBlock)
        pageFound == FindPage(s, objBlock)
        corrupted == IsPaddingCorrupted(s, objBlock)
    IN  IF freed.err # NoError THEN freed.err
        ELSE IF freed.ret THEN E_MULTIPLE_FREE
        ELSE IF pageFound.err # NoError THEN pageFound.err
        ELSE IF pageFound.ret = 0 THEN E_BAD_BOUNDARY
        ELSE IF ~IsValidAlignment(objBlock, pageFound.ret) THEN E_BAD_BOUNDARY
        ELSE IF corrupted.err # NoError THEN corrupted.err
        ELSE IF corrupted.ret THEN E_CORRUPTED_BLOCK
        ELSE NoError

\* Mutation of ReleaseBlock: the block is not filled with FREED_PATTERN.
ReleaseBlockUnpainted(s, Object) ==
    IF ~Live(s, Object, stats.ObjectSize_) \/ ~Live(s, Object, ptrSize)
    THEN Out(s, 0, Undefined, FALSE)
    ELSE LET s1 == [s EXCEPT !.mem = WritePtr(s.mem, Object, s.freeList),
                             !.freeList = Object,
                             !.stats = UpdateDeallocationStats(s.stats)]
             upd == UpdateHeaderInfo(s1, Object, freedFlag)
             ext == IF upd.err = NoError /\ config.HBlockInfo_.type_ = hbExternal
                    THEN FreeExternalHeader(upd.s, Object)
                    ELSE upd
         IN  Out(ext.s, 0, ext.err, FALSE)

\* Free from "clear to freed pattern" on
ReleaseBlock(s, Object) ==
    IF ~Live(s, Object, stats.ObjectSize_) \/ ~Live(s, Object, ptrSize)
    THEN Out(s, 0, Undefined, FALSE)
    ELSE LET m1 == Fill(s.mem, Object, stats.ObjectSize_, FREED_PATTERN)
             s1 == [s EXCEPT !.mem = WritePtr(m1, Object, s.freeList),
                             !.freeList = Object,
                             !.stats = UpdateDeallocationStats(s.stats)]
             upd == UpdateHeaderInfo(s1, Object, freedFlag)
             ext == IF upd.err = NoError /\ config.HBlockInfo_.type_ = hbExternal
                    THEN FreeExternalHeader(upd.s, Object)
                    ELSE upd
         IN  Out(ext.s, 0, ext.err, FALSE)

FreeResult(Object) ==
    IF config.UseCPPMemManager_
    THEN LET s1 == [Cur EXCEPT !.stats = UpdateDeallocationStats(stats)]
         IN  IF Object = 0 THEN Out(s1, 0, NoError, FALSE)
             ELSE IF Object \notin objects THEN Out(s1, 0, Undefined, FALSE)
             ELSE Out([s1 EXCEPT !.objects = @ \ {Object}], 0, NoError, FALSE)
    ELSE IF Object = 0 THEN Out(Cur, 0, NoError, FALSE)
    ELSE LET chk == IF config.DebugOn_ THEN DebugChecks(Cur, Object) ELSE NoError
         IN  IF chk # NoError THEN Out(Cur, 0, chk, FALSE) ELSE ReleaseBlock(Cur, Object)

(***************************************************************************)
(* ObjectAllocator::IsObjectBlockInUse                                     *)
(***************************************************************************)
IsObjectBlockInUse(s, objBlock) ==
    LET headerStart == objBlock - config.PadBytes_ - config.HBlockInfo_.size_
        type == config.HBlockInfo_.type_
    IN  CASE type = hbBasic ->
               IF ~Live(s, headerStart + 4, 1) THEN Bad(Undefined)
               ELSE Val(s.mem[headerStart + 4] # 0)
          [] type = hbExtended ->
               LET flagAt == headerStart + config.HBlockInfo_.additional_ + 6
               IN  IF ~Live(s, flagAt, 1) THEN Bad(Undefined) ELSE Val(s.mem[flagAt] # 0)
          [] type = hbExternal ->
               IF ~Live(s, headerStart, ptrSize) THEN Bad(Undefined)
               ELSE LET infoBlock == ReadPtr(s.mem, headerStart)
                    IN  IF infoBlock = 0 THEN Val(FALSE)
                        ELSE IF infoBlock \notin DOMAIN s.descs THEN Bad(Undefined)
                        ELSE Val(s.descs[infoBlock].in_use)
          [] OTHER ->
               LET freed == IsMemoryFreed(s, objBlock)
               IN  IF freed.err # NoError THEN freed ELSE Val(~freed.ret)

(***************************************************************************)
(* ObjectAllocator::FreePage: take the page's blocks off the free list,    *)
(* unlink the page, update the statistics.  The result carries the new     *)
(* value of the reference parameter currPage.                              *)
(***************************************************************************)
Scan(s, curr, prev, objMem, objFreed, err) ==
    [s |-> s, curr |-> curr, prev |-> prev, objMem |-> objMem, objFreed |-> objFreed,
     err |-> err]

\* the for loop over the page's blocks, for one node of the free list
RECURSIVE FreePageSearch(_, _, _, _, _, _)
FreePageSearch(s, currFreeBlock, prevFreeBlock, objMem, objFreed, i) ==
    IF i >= config.ObjectsPerPage_
    THEN Scan(s, currFreeBlock, prevFreeBlock, objMem, objFreed, NoError)
    ELSE LET next == IF i # config.ObjectsPerPage_ - 1 THEN objMem + objAdvancement ELSE objMem
         IN  IF currFreeBlock # objMem
             THEN FreePageSearch(s, currFreeBlock, prevFreeBlock, next, objFreed, i + 1)
             ELSE IF ~Live(s, currFreeBlock, ptrSize)
             THEN Scan(s, currFreeBlock, prevFreeBlock, objMem, objFreed, Undefined)
             ELSE IF prevFreeBlock # 0
             THEN IF ~Live(s, prevFreeBlock, ptrSize)
                  THEN Scan(s, currFreeBlock, prevFreeBlock, objMem, objFreed, Undefined)
                  ELSE FreePageSearch(
                           [s EXCEPT !.mem = WritePtr(s.mem, prevFreeBlock,
                                                      ReadPtr(s.mem, currFreeBlock))],
                           currFreeBlock, prevFreeBlock, next, objFreed + 1, i + 1)
             ELSE LET head == ReadPtr(s.mem, currFreeBlock)
                  IN  FreePageSearch([s EXCEPT !.freeList = head], head, prevFreeBlock,
                                     next, objFreed + 1, i + 1)

\* the while loop over the free list; FreePageWalkStep is the rest of one
\* round after the for loop has given r
RECURSIVE FreePageWalk(_, _, _, _, _, _)
RECURSIVE FreePageWalkStep(_, _)
FreePageWalkStep(r, fuel) ==
    IF r.err # NoError THEN r
    ELSE IF r.objFreed = config.ObjectsPerPage_ THEN r
    ELSE IF r.curr = 0 THEN Scan(r.s, 0, 0, r.objMem, r.objFreed, NoError)
    ELSE IF ~Live(r.s, r.curr, ptrSize)
    THEN Scan(r.s, r.curr, r.prev, r.objMem, r.objFreed, Undefined)
    ELSE FreePageWalk(r.s, ReadPtr(r.s.mem, r.curr), r.curr, r.objMem, r.objFreed, fuel - 1)

FreePageWalk(s, currFreeBlock, prevFreeBlock, objMem, objFreed, fuel) ==
    IF currFreeBlock = 0 THEN Scan(s, 0, prevFreeBlock, objMem, objFreed, NoError)
    ELSE IF fuel = 0 THEN Scan(s, currFreeBlock, prevFreeBlock, objMem, objFreed, Diverges)
    ELSE FreePageWalkStep(
             FreePageSearch(s, currFreeBlock, prevFreeBlock, objMem, objFreed, 0), fuel)

Paged(s, currPage, err) == [s |-> s, currPage |-> currPage, err |-> err]

\* FreePage from the unlinking of the page on; s1 is the state the walk left
FreePageUnlink(s, s1, currPage, prevPage) ==
    IF ~Live(s1, currPage, ptrSize) THEN Paged(s, currPage, Undefined)
    ELSE IF prevPage # 0 /\ ~Live(s1, prevPage, ptrSize) THEN Paged(s, currPage, Undefined)
    ELSE Paged([s1 EXCEPT !.mem = IF prevPage # 0
                                  THEN WritePtr(@, prevPage, ReadPtr(@, currPage)) ELSE @,
                          !.pageList = IF prevPage # 0 THEN @ ELSE ReadPtr(s1.mem, currPage),
                          !.stats.PagesInUse_ = @ - 1,
                          !.stats.FreeObjects_ = @ - config.ObjectsPerPage_],
               ReadPtr(s1.mem, currPage), NoError)

\* FreePage from the walk of the free list on; walk is its result
FreePageWalked(s, walk, currPage, prevPage) ==
    IF walk.err # NoError THEN Paged(s, currPage, walk.err)
    ELSE FreePageUnlink(s, walk.s, currPage, prevPage)

\* FreePage after the external header of the first block; ext is the result
FreePageScan(s, ext, currPage, prevPage) ==
    IF ext.err # NoError THEN Paged(s, currPage, ext.err)
    ELSE FreePageWalked(s, FreePageWalk(ext.s, ext.s.freeList, 0, currPage + pageToDataAdv, 0,
                                        Cardinality(DOMAIN s.mem)),
                        currPage, prevPage)

FreePage(s, currPage, prevPage) ==
    IF currPage = 0 THEN Paged(s, currPage, NoError)
    ELSE FreePageScan(s, IF config.HBlockInfo_.type_ = hbExternal
                         THEN FreeExternalHeader(s, currPage + pageToDataAdv) ELSE Ok(s),
                      currPage, prevPage)

(***************************************************************************)
(* ObjectAllocator::FreeEmptyPages.  queueOk is whether the system heap    *)
(* grants memQueue.                                                        *)
(***************************************************************************)
\* the count loop of FreeEmptyPages over the blocks of one page; used is what
\* IsObjectBlockInUse answered for the block at objData
RECURSIVE CountInUse(_, _, _, _)
RECURSIVE CountInUseStep(_, _, _, _, _)
CountInUseStep(s, objData, i, objectsIsUse, used) ==
    IF used.err # NoError THEN used
    ELSE CountInUse(s, IF i # config.ObjectsPerPage_ - 1 THEN objData + objAdvancement
                       ELSE objData,
                    i + 1, IF used.ret THEN objectsIsUse + 1 ELSE objectsIsUse)

CountInUse(s, objData, i, objectsIsUse) ==
    IF i >= config.ObjectsPerPage_ THEN Val(objectsIsUse)
    ELSE CountInUseStep(s, objData, i, objectsIsUse, IsObjectBlockInUse(s, objData))

\* the while loop over the pages; FreeEmptyPagesCounted is one round after the
\* count loop has given n, FreeEmptyPagesFreed the round after FreePage
RECURSIVE FreeEmptyPagesLoop(_, _, _, _, _)
RECURSIVE FreeEmptyPagesCounted(_, _, _, _, _, _)
RECURSIVE FreeEmptyPagesFreed(_, _, _, _, _, _)
FreeEmptyPagesFreed(s, freed, currPage, prevPage, memQueue, seen) ==
    IF freed.err # NoError THEN Out(s, memQueue, freed.err, FALSE)
    ELSE FreeEmptyPagesLoop(freed.s, freed.currPage, prevPage,
                            Append(memQueue, currPage), seen \cup {currPage})

FreeEmptyPagesCounted(s, n, currPage, prevPage, memQueue, seen) ==
    IF n.err # NoError THEN Out(s, memQueue, n.err, FALSE)
    ELSE IF n.ret # 0
    THEN FreeEmptyPagesLoop(s, ReadPtr(s.mem, currPage), currPage, memQueue,
                            seen \cup {currPage})
    ELSE IF Len(memQueue) >= stats.PagesInUse_ THEN Out(s, memQueue, Undefined, FALSE)
    ELSE FreeEmptyPagesFreed(s, FreePage(s, currPage, prevPage), currPage, prevPage,
                             memQueue, seen)

FreeEmptyPagesLoop(s, currPage, prevPage, memQueue, seen) ==
    IF currPage = 0 THEN Out(s, memQueue, NoError, FALSE)
    ELSE IF ~Live(s, currPage, ptrSize) THEN Out(s, memQueue, Undefined, FALSE)
    ELSE IF currPage \in seen THEN Out(s, memQueue, Diverges, FALSE)
    ELSE FreeEmptyPagesCounted(s, CountInUse(s, currPage + pageToDataAdv, 0, 0),
                               currPage, prevPage, memQueue, seen)

RECURSIVE DeletePages(_, _)
DeletePages(s, memQueue) ==
    IF memQueue = << >> THEN Ok(s)
    ELSE IF Head(memQueue) \notin s.heap THEN Fail(s, Undefined)
    ELSE DeletePages([s EXCEPT !.heap = @ \ {Head(memQueue)},
                               !.mem = DeleteBytes(@, Head(memQueue), stats.PageSize_)],
                     Tail(memQueue))

\* the delete loop and the return; loop is the result of the while loop
FreeEmptyPagesDeleted(del, counter) ==
    IF del.err # NoError THEN Out(Cur, 0, del.err, FALSE)
    ELSE Out(del.s, counter, NoError, FALSE)

FreeEmptyPagesQueued(loop) ==
    IF loop.err # NoError THEN Out(Cur, 0, loop.err, FALSE)
    ELSE FreeEmptyPagesDeleted(DeletePages(loop.s, loop.ret), Len(loop.ret))

FreeEmptyPagesResult(queueOk) ==
    IF ~queueOk THEN Out(Cur, 0, E_NO_MEMORY, FALSE)
    ELSE FreeEmptyPagesQueued(FreeEmptyPagesLoop(Cur, pageList, 0, << >>, {}))

(***************************************************************************)
(* ObjectAllocator::DumpMemoryInUse and ObjectAllocator::ValidatePages.    *)
(* The result is the sequence of the addresses the callback fn was called  *)
(* with, in the order of the calls; the value returned is its length.  The *)
(* callback leaves the allocator alone.                                    *)
(***************************************************************************)
\* the for loop of DumpMemoryInUse over the blocks of one page; used is what
\* IsObjectBlockInUse answered for the block at objData
RECURSIVE DumpBlocks(_, _, _, _)
RECURSIVE DumpBlocksStep(_, _, _, _, _)
DumpBlocksStep(s, objData, i, called, used) ==
    IF used.err # NoError THEN used
    ELSE DumpBlocks(s, IF i # config.ObjectsPerPage_ - 1 THEN objData + objAdvancement
                       ELSE objData,
                    i + 1, IF used.ret THEN Append(called, objData) ELSE called)

DumpBlocks(s, objData, i, called) ==
    IF i >= config.ObjectsPerPage_ THEN Val(called)
    ELSE DumpBlocksStep(s, objData, i, called, IsObjectBlockInUse(s, objData))

\* the while loop over the pages; blocks is the result of the for loop
RECURSIVE DumpPages(_, _, _, _)
RECURSIVE DumpPagesStep(_, _, _, _)
DumpPagesStep(s, page, seen, blocks) ==
    IF blocks.err # NoError THEN blocks
    ELSE DumpPages(s, ReadPtr(s.mem, page), blocks.ret, seen \cup {page})

DumpPages(s, page, called, seen) ==
    IF page = 0 THEN Val(called)
    ELSE IF ~Live(s, page, ptrSize) THEN Bad(Undefined)
    ELSE IF page \in seen THEN Bad(Diverges)
    ELSE DumpPagesStep(s, page, seen, DumpBlocks(s, page + pageToDataAdv, 0, called))

DumpMemoryInUseResult == DumpPages(Cur, pageList, << >>, {})

\* the same loops of ValidatePages; corrupted is what IsPaddingCorrupted
\* answered for the block at objData
RECURSIVE ValidateBlocks(_, _, _, _)
RECURSIVE ValidateBlocksStep(_, _, _, _, _)
ValidateBlocksStep(s, objData, i, called, corrupted) ==
    IF corrupted.err # NoError THEN corrupted
    ELSE ValidateBlocks(s, IF i # config.ObjectsPerPage_ - 1 THEN objData + objAdvancement
                           ELSE objData,
                        i + 1, IF corrupted.ret THEN Append(called, objData) ELSE called)

ValidateBlocks(s, objData, i, called) ==
    IF i >= config.ObjectsPerPage_ THEN Val(called)
    ELSE ValidateBlocksStep(s, objData, i, called, IsPaddingCorrupted(s, objData))

RECURSIVE ValidatePagesWalk(_, _, _, _)
RECURSIVE ValidatePagesStep(_, _, _, _)
ValidatePagesStep(s, page, seen, blocks) ==
    IF blocks.err # NoError THEN blocks
    ELSE ValidatePagesWalk(s, ReadPtr(s.mem, page), blocks.ret, seen \cup {page})

ValidatePagesWalk(s, page, called, seen) ==
    IF page = 0 THEN Val(called)
    ELSE IF ~Live(s, page, ptrSize) THEN Bad(Undefined)
    ELSE IF page \in seen THEN Bad(Diverges)
    ELSE ValidatePagesStep(s, page, seen,
                           ValidateBlocks(s, page + pageToDataAdv, 0, called))

\* Mutation of ValidatePages: the walk stops after the first page.
ValidatePagesFirstPageOnly ==
    IF config.PadBytes_ > 0 /\ pageList # 0
    THEN ValidateBlocks(Cur, pageList + pageToDataAdv, 0, << >>)
    ELSE Val(<< >>)

ValidatePagesResult ==
    IF config.PadBytes_ > 0 THEN ValidatePagesWalk(Cur, pageList, << >>, {})
    ELSE Val(<< >>)

(***************************************************************************)
(* The client.                                                             *)
(***************************************************************************)
\* data-block addresses of the page at base p
SlotsOf(p) == {p + pageToDataAdv + i * objAdvancement : i \in 0..(config.ObjectsPerPage_ - 1)}
LiveSlots == UNION {SlotsOf(p) : p \in heap}

\* null; of every live page the first and the last byte, the bytes either
\* side of it, and each data block's address with the bytes either side of
\* it; and the addresses where the data blocks of a page not live now would be
AnyAddress ==
    {0} \cup UNION {{p - 1, p, p + stats.PageSize_ - 1, p + stats.PageSize_} : p \in heap}
        \cup UNION {{a - 1, a, a + 1} : a \in LiveSlots}
        \cup UNION {SlotsOf(p) : p \in Bases(stats.PageSize_) \ heap}

\* what the client passes to Free: null, or an address it holds; with the
\* checks on, also the address of any data block of a live page
FreeArgs ==
    IF config.UseCPPMemManager_ THEN {0} \cup objects
    ELSE IF config.DebugOn_ THEN {0} \cup held \cup LiveSlots
    ELSE {0} \cup held

\* the pad bytes either side of the blocks the client holds
HeldPadBytes ==
    UNION {((p - config.PadBytes_)..(p - 1))
             \cup ((p + stats.ObjectSize_)..(p + stats.ObjectSize_ + config.PadBytes_ - 1)) :
           p \in held \cap LiveSlots}
\* the byte values the client writes there
ClientBytes == {0}

\* the label passed to Allocate, read for external headers only
LabelArgs == IF config.HBlockInfo_.type_ = hbExternal /\ ~config.UseCPPMemManager_
             THEN Labels ELSE {NullLabel}
\* what the system heap answers when Allocate asks: 0 for std::bad_alloc, else
\* a region it has not handed out; it is asked for a page when the free list
\* is empty, for a small block in bypass mode and for external headers.  The
\* allocator never compares or orders the addresses of small blocks, so the
\* lowest free one stands for any of them.
PageAnswers ==
    IF ~config.UseCPPMemManager_ /\ freeList = 0
    THEN {0} \cup (Bases(stats.PageSize_) \ heap) ELSE {0}
UsesBlocks == config.UseCPPMemManager_ \/ config.HBlockInfo_.type_ = hbExternal
FreeBlocks == BlockAddrs(stats.PageSize_) \ (DOMAIN descs \cup objects)
LowestOf(S) == CHOOSE x \in S : \A y \in S : x <= y
BlockAnswers == IF UsesBlocks /\ FreeBlocks # {} THEN {0, LowestOf(FreeBlocks)} ELSE {0}
LabelAnswers == IF UsesBlocks /\ ~config.UseCPPMemManager_ THEN BOOLEAN ELSE {TRUE}

\* no call has ended in undefined behaviour or in a walk that does not return
Running == last.err \notin {Undefined, Diverges}

\* the new state of the allocator after a call with outcome r
Becomes(r) ==
    IF r.err \in {Undefined, Diverges}
    THEN UNCHANGED <<stats, pageList, freeList, mem, heap, descs, objects>>
    ELSE /\ stats' = r.s.stats
         /\ pageList' = r.s.pageList
         /\ freeList' = r.s.freeList
         /\ mem' = r.s.mem
         /\ heap' = r.s.heap
         /\ descs' = r.s.descs
         /\ objects' = r.s.objects

Allocate(label, rawMem, block, labelOk) ==
    /\ Running
    /\ LET r == AllocateResult(label, rawMem, block, labelOk)
       IN  /\ r.s.stats.Allocations_ # stats.Allocations_ => stats.Allocations_ < MaxAllocs
           /\ Becomes(r)
           /\ held' = IF r.err = NoError THEN held \cup {r.ret} ELSE held
           /\ last' = [Call("Allocate", 0, r.ret, r.err) EXCEPT
                          !.built = r.built,
                          !.pre = IF r.err = NoError THEN Snap(stats, freeList) ELSE NoSnap]
           /\ hist' = hist
    /\ UNCHANGED config

FreeCall(Object, probing) ==
    /\ Running
    /\ LET r == FreeResult(Object)
           done == r.err = NoError /\ Object # 0
           follows == IF last.op = "Allocate" /\ last.err = NoError /\ last.ret = Object
                      THEN "Allocate"
                      ELSE IF last.op = "Free" /\ last.err = NoError /\ last.arg = Object
                              /\ Object # 0
                      THEN "Free" ELSE "other"
       IN  /\ r.s.stats.Deallocations_ # stats.Deallocations_ => stats.Deallocations_ < MaxAllocs
           /\ Becomes(r)
           /\ held' = IF done THEN held \ {Object} ELSE held
           /\ last' = [Call("Free", Object, 0, r.err) EXCEPT
                          !.follows = follows,
                          !.built = follows = "Allocate" /\ last.built,
                          !.pre = IF follows = "Allocate" THEN last.pre ELSE NoSnap]
           /\ hist' = [hist EXCEPT !.probed = @ \/ probing]
    /\ UNCHANGED config

Free(Object) == FreeCall(Object, FALSE)

\* Free called on an address the client does not hold
Probe(Object) == Object \notin held /\ FreeCall(Object, TRUE)

FreeEmptyPages(queueOk) ==
    /\ Running
    /\ LET r == FreeEmptyPagesResult(queueOk)
       IN  /\ Becomes(r)
           /\ last' = Call("FreeEmptyPages", 0, r.ret, r.err)
           /\ hist' = [hist EXCEPT !.compacted = @ \/ (r.err = NoError /\ r.ret > 0)]
    /\ UNCHANGED <<config, held>>

\* the client writes through a pointer it holds, past either end of its
\* block; it does so while the pad bytes of the blocks it holds are intact
ClientWrite(a, v) ==
    /\ Running
    /\ ~config.UseCPPMemManager_
    /\ a \in HeldPadBytes
    /\ \A b \in HeldPadBytes : mem[b] = PAD_PATTERN
    /\ mem' = [mem EXCEPT ![a] = v]
    /\ last' = Call("ClientWrite", a, 0, NoError)
    /\ UNCHANGED <<config, stats, pageList, freeList, heap, descs, objects, held, hist>>

\* the pad bytes either side of every block of the live pages
SlotPadBytes ==
    UNION {((p - config.PadBytes_)..(p - 1))
             \cup ((p + stats.ObjectSize_)..(p + stats.ObjectSize_ + config.PadBytes_ - 1)) :
           p \in LiveSlots}

\* the client writes through a stray pointer into the pad bytes of a block,
\* one it holds or one that is free; it does so while all of them are intact
StrayWrite(a, v) ==
    /\ Running
    /\ ~config.UseCPPMemManager_
    /\ a \in SlotPadBytes
    /\ \A b \in SlotPadBytes : mem[b] = PAD_PATTERN
    /\ mem' = [mem EXCEPT ![a] = v]
    /\ last' = Call("StrayWrite", a, 0, NoError)
    /\ UNCHANGED <<config, stats, pageList, freeList, heap, descs, objects, held, hist>>

\* the two inspections; they leave the allocator as it is
Inspect(op, r) ==
    /\ Running
    /\ last' = [Call(op, 0, IF r.err = NoError THEN Len(r.ret) ELSE 0, r.err) EXCEPT
                   !.called = IF r.err = NoError THEN r.ret ELSE << >>]
    /\ UNCHANGED <<config, stats, pageList, freeList, mem, heap, descs, objects, held, hist>>

DumpMemoryInUse == Inspect("DumpMemoryInUse", DumpMemoryInUseResult)

ValidatePages == Inspect("ValidatePages", ValidatePagesResult)

(***************************************************************************)
(* Spec: construction, then Allocate, Free and client writes.              *)
(***************************************************************************)
Next ==
    \/ \E label \in LabelArgs, rawMem \in PageAnswers, block \in BlockAnswers,
          labelOk \in LabelAnswers :
            Allocate(label, rawMem, block, labelOk)
    \/ \E Object \in FreeArgs : Free(Object)
    \/ \E a \in HeldPadBytes, v \in ClientBytes : ClientWrite(a, v)

Spec == Init /\ [][Next]_vars

(***************************************************************************)
(* SpecCompact: the same with FreeEmptyPages.                              *)
(***************************************************************************)
NextCompact ==
    \/ \E label \in LabelArgs, rawMem \in PageAnswers, block \in BlockAnswers,
          labelOk \in LabelAnswers :
            Allocate(label, rawMem, block, labelOk)
    \/ \E Object \in FreeArgs : Free(Object)
    \/ \E queueOk \in BOOLEAN : FreeEmptyPages(queueOk)
    \/ \E a \in HeldPadBytes, v \in ClientBytes : ClientWrite(a, v)

SpecCompact == Init /\ [][NextCompact]_vars

(***************************************************************************)
(* SpecProbe: with the debug checks on, the client passes Free any address *)
(* in or next to a page.  A run is followed up to its first such call.     *)
(***************************************************************************)
ProbeConfigs == {c \in Configs : c.cfg.DebugOn_ /\ ~c.cfg.UseCPPMemManager_}

InitProbe == InitWith(ProbeConfigs)

NextProbe ==
    /\ ~hist.probed
    /\ \/ \E label \in LabelArgs, rawMem \in PageAnswers, block \in BlockAnswers,
             labelOk \in LabelAnswers :
               Allocate(label, rawMem, block, labelOk)
       \/ \E Object \in held : Free(Object)
       \/ \E Object \in AnyAddress : Probe(Object)

SpecProbe == InitProbe /\ [][NextProbe]_vars

(***************************************************************************)
(* SpecHeld: construction, then Allocate and Free of addresses the client  *)
(* holds, and nothing else; among the configurations is one whose objects  *)
(* are larger than a pointer.                                              *)
(***************************************************************************)
InitHeld == InitWith(Configs \cup {CfgWide})

NextHeld ==
    \/ \E label \in LabelArgs, rawMem \in PageAnswers, block \in BlockAnswers,
          labelOk \in LabelAnswers :
            Allocate(label, rawMem, block, labelOk)
    \/ \E Object \in held : Free(Object)

SpecHeld == InitHeld /\ [][NextHeld]_vars

(***************************************************************************)
(* SpecCtor: the constructor is given any object size and any alignment,   *)
(* header and pad sizes, those the interface rules out among them; then    *)
(* Allocate and Free of addresses the client holds.  When the layout loop  *)
(* of CreatePage writes outside the page the behaviour of the constructor  *)
(* is undefined and the run ends there.                                    *)
(***************************************************************************)
CtorSizes == {ptrSize - 4, ptrSize, ptrSize + 2}
CtorAlignments == {0, 2, 3, 4, 8}
CtorHeaders == {HBlockInfo(hbNone, 0), HBlockInfo(hbBasic, 0), HBlockInfo(hbExtended, 2)}
CtorPads == {0, 1, 4}
CtorObjectsPerPage == {1, 3}
CtorConfigs ==
    {[objectSize |-> n, cfg |-> OAConfig(FALSE, opp, 1, FALSE, pad, hb, A)] :
        n \in CtorSizes, opp \in CtorObjectsPerPage, pad \in CtorPads,
        hb \in CtorHeaders, A \in CtorAlignments}

InitCtor ==
    \/ InitWith(CtorConfigs)
    \/ \E c \in CtorConfigs, k \in 1..NumBases :
        LET ctor == Constructor(c.objectSize, c.cfg)
            page == CreatePage(ctor.config, ctor.stats, << >>, 0, 0,
                               BaseAddr(ctor.stats.PageSize_, k))
        IN  /\ ~page.ok
            /\ config = ctor.config
            /\ stats = ctor.stats
            /\ pageList = 0
            /\ freeList = 0
            /\ mem = << >>
            /\ heap = {}
            /\ descs = << >>
            /\ objects = {}
            /\ held = {}
            /\ last = Call("ObjectAllocator", 0, 0, Undefined)
            /\ hist = [compacted |-> FALSE, probed |-> FALSE]

SpecCtor == InitCtor /\ [][NextHeld]_vars

(***************************************************************************)
(* SpecInspect: construction, then Allocate, Free of addresses the client  *)
(* holds, client writes, DumpMemoryInUse and ValidatePages.                *)
(***************************************************************************)
NextInspect ==
    \/ \E label \in LabelArgs, rawMem \in PageAnswers, block \in BlockAnswers,
          labelOk \in LabelAnswers :
            Allocate(label, rawMem, block, labelOk)
    \/ \E Object \in held : Free(Object)
    \/ \E a \in HeldPadBytes, v \in ClientBytes : ClientWrite(a, v)
    \/ DumpMemoryInUse
    \/ ValidatePages

SpecInspect == Init /\ [][NextInspect]_vars

(***************************************************************************)
(* SpecStray: SpecProbe with stray writes into the pad bytes of any block  *)
(* before the call of Free that ends the run.                              *)
(***************************************************************************)
NextStray ==
    /\ ~hist.probed
    /\ \/ \E label \in LabelArgs, rawMem \in PageAnswers, block \in BlockAnswers,
             labelOk \in LabelAnswers :
               Allocate(label, rawMem, block, labelOk)
       \/ \E Object \in held : Free(Object)
       \/ \E a \in SlotPadBytes, v \in ClientBytes : StrayWrite(a, v)
       \/ \E Object \in AnyAddress : Probe(Object)

SpecStray == InitProbe /\ [][NextStray]_vars

(***************************************************************************)
(* SpecTwice: with the debug checks off, the client passes Free the        *)
(* address of any block of a page, one it has already released among them; *)
(* construction, then Allocate, such calls of Free and DumpMemoryInUse.    *)
(***************************************************************************)
TwiceConfigs == {c \in Configs \cup {CfgWide} : ~c.cfg.DebugOn_ /\ ~c.cfg.UseCPPMemManager_}

InitTwice == InitWith(TwiceConfigs)

NextTwice ==
    \/ \E label \in LabelArgs, rawMem \in PageAnswers, block \in BlockAnswers,
          labelOk \in LabelAnswers :
            Allocate(label, rawMem, block, labelOk)
    \/ \E Object \in held \cup LiveSlots : Free(Object)
    \/ DumpMemoryInUse

SpecTwice == InitTwice /\ [][NextTwice]_vars

(***************************************************************************)
(* Vocabulary of the properties.                                           *)
(***************************************************************************)
Pooled == ~config.UseCPPMemManager_

\* The nodes reached from a by following the pointer stored in each node.
\* clean: the walk ended at null, every node read being storage of a page;
\* otherwise the last node of nodes is the one that could not be read or
\* closes a cycle.
RECURSIVE ListWalk(_, _)
ListWalk(a, seen) ==
    IF a = 0 THEN [nodes |-> seen, clean |-> TRUE]
    ELSE IF a \in seen \/ ~Live(Cur, a, ptrSize) THEN [nodes |-> seen \cup {a}, clean |-> FALSE]
    ELSE ListWalk(ReadPtr(mem, a), seen \cup {a})

FreeListWalk == ListWalk(freeList, {})
PageListWalk == ListWalk(pageList, {})

\* the pad bands of the block at a
PadBytesOf(a) ==
    ((a - config.PadBytes_)..(a - 1))
        \cup ((a + stats.ObjectSize_)..(a + stats.ObjectSize_ + config.PadBytes_ - 1))
PadCorrupted(a) == \E b \in PadBytesOf(a) : b \notin DOMAIN mem \/ mem[b] # PAD_PATTERN

\* a lies in a live page and is not the address of a data block of it
InPageNotSlot(a) == \E p \in heap : p <= a /\ a < p + stats.PageSize_ /\ a \notin SlotsOf(p)

\* a lies in the byte range of no page of the page list
InNoPage(a) == \A p \in PageListWalk.nodes : ~(p <= a /\ a < p + stats.PageSize_)

\* 1 when the unsigned value of the counter pattern r is 2^32 + r, else 0
Wraps(r) == IF r < 0 THEN 1 ELSE 0

\* no block has been released, no page has been released, and every Allocate
\* that took a slot returned it
Pristine ==
    /\ Pooled
    /\ stats.Deallocations_ = 0
    /\ ~hist.compacted
    /\ stats.Allocations_ = Cardinality(held)

(***************************************************************************)
(* C1.  In pooled mode every Allocate that returns normally returns the    *)
(* address of the data block of a slot of a live page, and the client did  *)
(* not hold that address when it called; so the addresses returned by      *)
(* successive calls with no Free in between are pairwise distinct.         *)
(***************************************************************************)
C1_AcquireReturnsUnheldSlot ==
    [][(last'.op = "Allocate" /\ last'.err = NoError /\ Pooled)
          => (last'.ret \in LiveSlots' /\ last'.ret \notin held
              /\ held' = held \cup {last'.ret})]_vars

\* three Allocates in a row have returned three blocks
C1_Witness ==
    /\ Pooled
    /\ last.op = "Allocate" /\ last.err = NoError
    /\ stats.Deallocations_ = 0
    /\ Cardinality(held) >= 3

(***************************************************************************)
(* C2.  After every call, failed ones included, the unsigned counters      *)
(* satisfy FreeObjects_ + ObjectsInUse_ = PagesInUse_ * ObjectsPerPage_,   *)
(* as numbers.                                                             *)
(***************************************************************************)
C2_CountersBalance ==
    /\ Wraps(stats.FreeObjects_) + Wraps(stats.ObjectsInUse_)
          = Wraps(stats.PagesInUse_) * config.ObjectsPerPage_
    /\ stats.FreeObjects_ + stats.ObjectsInUse_ = stats.PagesInUse_ * config.ObjectsPerPage_

(***************************************************************************)
(* C3.  When FreeEmptyPages has returned, no node of the free list lies in *)
(* a page that has been released.                                          *)
(***************************************************************************)
C3_NoFreeNodeInReleasedPage ==
    (last.op = "FreeEmptyPages" /\ last.err = NoError)
        => \A n \in FreeListWalk.nodes : Live(Cur, n, ptrSize)

(***************************************************************************)
(* C4.  An Allocate or a Free that raises an OAException leaves the page   *)
(* list, the free list, the counters, the bytes of the pages and the       *)
(* external headers as they were.                                          *)
(***************************************************************************)
C4_FailedCallChangesNothing ==
    [][(last'.op \in {"Allocate", "Free"} /\ last'.err \in OAExceptions)
          => UNCHANGED <<stats, pageList, freeList, mem, descs>>]_vars

(***************************************************************************)
(* C5.  With the debug checks on, a Free of an address that is on the free *)
(* list raises E_MULTIPLE_FREE; so does the second of two Frees of the     *)
(* same address in a row.                                                  *)
(***************************************************************************)
C5_FreeOfFreeNodeIsMultipleFree ==
    [][(last'.op = "Free" /\ Pooled /\ config.DebugOn_
           /\ last'.arg \in FreeListWalk.nodes)
          => last'.err = E_MULTIPLE_FREE]_vars

\* the second of two Frees of one address in a row was refused
C5_Witness ==
    /\ Pooled /\ config.DebugOn_
    /\ last.op = "Free" /\ last.follows = "Free"
    /\ last.err = E_MULTIPLE_FREE

(***************************************************************************)
(* C6.  With MaxPages_ = K > 0: PagesInUse_ <= K in every state, and in a  *)
(* run of Allocates alone that the system heap does not refuse the first   *)
(* K * ObjectsPerPage_ return a block and the next raises E_NO_PAGES.      *)
(* With MaxPages_ = 0 no call raises E_NO_PAGES.                           *)
(***************************************************************************)
C6_PageLimit ==
    /\ config.MaxPages_ > 0 => ~U32Less(config.MaxPages_, stats.PagesInUse_)
    /\ config.MaxPages_ = 0 => last.err # E_NO_PAGES
    /\ (Pristine /\ config.MaxPages_ > 0 /\ last.op = "Allocate" /\ last.err # E_NO_MEMORY)
          => \/ /\ last.err = NoError
                /\ Cardinality(held) <= config.MaxPages_ * config.ObjectsPerPage_
             \/ /\ last.err = E_NO_PAGES
                /\ Cardinality(held) = config.MaxPages_ * config.ObjectsPerPage_

\* every slot of every allowed page is held and the next Allocate was refused
C6_Witness ==
    /\ Pristine /\ config.MaxPages_ > 0
    /\ last.op = "Allocate" /\ last.err = E_NO_PAGES
    /\ Cardinality(held) = config.MaxPages_ * config.ObjectsPerPage_
    /\ stats.PagesInUse_ = config.MaxPages_

(***************************************************************************)
(* C7.  With the debug checks on, a Free of an address inside a live page  *)
(* that is not the address of the data block of one of its slots raises    *)
(* E_BAD_BOUNDARY; addresses before the first data block are among them.   *)
(***************************************************************************)
C7_OffSlotFreeIsBadBoundary ==
    (last.op = "Free" /\ Pooled /\ config.DebugOn_ /\ InPageNotSlot(last.arg))
        => last.err = E_BAD_BOUNDARY

(***************************************************************************)
(* C8.  With the debug checks on, a Free of a non-null address that is not *)
(* on the free list and lies in the byte range of no page of the page list *)
(* raises E_BAD_BOUNDARY.                                                  *)
(***************************************************************************)
C8_FreeOutsidePagesIsBadBoundary ==
    [][(last'.op = "Free" /\ Pooled /\ config.DebugOn_ /\ last'.arg # 0
           /\ FreeListWalk.clean /\ last'.arg \notin FreeListWalk.nodes
           /\ PageListWalk.clean /\ InNoPage(last'.arg))
          => last'.err = E_BAD_BOUNDARY]_vars

\* refused: the address one past the end of a page, and the address of a
\* data block of a page that is not live
C8_Witness ==
    /\ Pooled /\ config.DebugOn_
    /\ last.op = "Free" /\ last.err = E_BAD_BOUNDARY
    /\ last.arg # 0 /\ InNoPage(last.arg)
    /\ held # {}
    /\ \E p \in heap : last.arg = p + stats.PageSize_

(***************************************************************************)
(* C9.  With the debug checks on and PadBytes_ > 0, a Free of a block the  *)
(* client holds, one of whose pad bytes is not PAD_PATTERN, raises         *)
(* E_CORRUPTED_BLOCK; with PadBytes_ = 0 no call raises it.                *)
(* This is a property of runs of Allocate, Free and client writes (Spec).  *)
(* Once FreeEmptyPages has left a node of a released page on the free list *)
(* (see C3), the scan of the free list that Free makes before it reads the *)
(* pad bytes reads released storage, and no outcome is defined.            *)
(***************************************************************************)
C9_CorruptedPadIsRefused ==
    /\ [][(last'.op = "Free" /\ Pooled /\ config.DebugOn_ /\ config.PadBytes_ > 0
              /\ last'.arg \in held /\ PadCorrupted(last'.arg))
             => last'.err = E_CORRUPTED_BLOCK]_vars
    /\ [](config.PadBytes_ = 0 => last.err # E_CORRUPTED_BLOCK)

\* a held block whose right pad band was overwritten has been refused
C9_Witness ==
    /\ Pooled /\ config.DebugOn_ /\ config.PadBytes_ > 0
    /\ last.op = "Free" /\ last.err = E_CORRUPTED_BLOCK
    /\ last.arg \in held
    /\ \E b \in PadBytesOf(last.arg) : b > last.arg /\ mem[b] # PAD_PATTERN

(***************************************************************************)
(* C10.  With the debug checks on, a Free of the address the Allocate just *)
(* before it returned, its pad bands untouched, returns normally; when     *)
(* that Allocate created no page, FreeObjects_, ObjectsInUse_ and the head *)
(* of the free list are then what they were before the Allocate.           *)
(***************************************************************************)
C10_AcquireReleaseRoundTrip ==
    (last.op = "Free" /\ last.follows = "Allocate" /\ Pooled /\ config.DebugOn_
        /\ ~PadCorrupted(last.arg))
        => /\ last.err = NoError
           /\ ~last.built => Snap(stats, freeList) = last.pre

\* a round trip on a page that was there, after earlier calls of both kinds
C10_Witness ==
    /\ Pooled /\ config.DebugOn_
    /\ last.op = "Free" /\ last.follows = "Allocate" /\ ~last.built
    /\ last.err = NoError
    /\ held # {}
    /\ stats.Deallocations_ >= 2

(***************************************************************************)
(* C11.  Free(nullptr) changes nothing, in every configuration, bypass     *)
(* mode included: the counters, the free list, the page list and the bytes *)
(* of the pages are what they were, and the call returns normally.         *)
(***************************************************************************)
C11_FreeOfNullChangesNothing ==
    [][(last'.op = "Free" /\ last'.arg = 0)
          => /\ last'.err = NoError
             /\ UNCHANGED <<stats, pageList, freeList, mem, heap, descs, objects>>]_vars

\* the live pages none of whose blocks the client holds
EmptyPages == {p \in heap : SlotsOf(p) \cap held = {}}

(***************************************************************************)
(* C12.  A call of FreeEmptyPages that the system heap grants its queue    *)
(* returns normally; it releases the pages none of whose blocks is held    *)
(* and no other, returns their number, leaves the other pages on the page  *)
(* list, and takes that number off PagesInUse_ and ObjectsPerPage_ times   *)
(* that number off FreeObjects_.                                           *)
(***************************************************************************)
C12_FreeEmptyPagesReleasesEmptyPages ==
    [][(last'.op = "FreeEmptyPages" /\ last'.err # E_NO_MEMORY)
          => /\ last'.err = NoError
             /\ heap' = heap \ EmptyPages
             /\ last'.ret = Cardinality(EmptyPages)
             /\ PageListWalk'.clean /\ PageListWalk'.nodes = heap'
             /\ stats'.PagesInUse_ = stats.PagesInUse_ - last'.ret
             /\ stats'.FreeObjects_
                   = stats.FreeObjects_ - config.ObjectsPerPage_ * last'.ret]_vars

\* a is the address of a block of a live page that is on the page list
InListedPage(a) == \E p \in heap : p \in PageListWalk.nodes /\ a \in SlotsOf(p)

(***************************************************************************)
(* C13.  In pooled mode, after any sequence of Allocate, Free of held      *)
(* addresses and FreeEmptyPages, with any kind of header, every address    *)
(* the client holds is the address of a block of a live page that is on    *)
(* the page list; in particular Allocate never hands out storage of a page *)
(* that FreeEmptyPages has released.                                       *)
(***************************************************************************)
C13_HeldBlocksStayInListedPages ==
    Pooled => /\ \A a \in held : InListedPage(a)
              /\ last.op = "Allocate" => last.err # Undefined

(***************************************************************************)
(* C14.  In pooled mode, with the debug checks on or off, after any        *)
(* sequence of Allocate and Free (no FreeEmptyPages) the free list ends at *)
(* null with no address on it twice, every address on it is the address of *)
(* a data block of a live page, and every live page is on the page list.   *)
(***************************************************************************)
C14_FreeListOfDistinctSlots ==
    Pooled => /\ FreeListWalk.clean
              /\ FreeListWalk.nodes \subseteq LiveSlots
              /\ PageListWalk.clean /\ PageListWalk.nodes = heap

\* blocks of two pages are on the free list after a Free, one block held
C14_Witness ==
    /\ Pooled
    /\ last.op = "Free" /\ last.err = NoError /\ last.arg # 0
    /\ Cardinality(heap) >= 2
    /\ \A p \in heap : SlotsOf(p) \cap FreeListWalk.nodes # {}
    /\ held # {}
\* the configuration keeps a header, of any kind, with each block
WithHeaders == config.HBlockInfo_.type_ # hbNone

\* what the header of the block at a says: the flag byte of a basic or an
\* extended header, in_use of the MemBlockInfo for an external header
FlagInUse(a) == LET used == IsObjectBlockInUse(Cur, a) IN used.err = NoError /\ used.ret

(***************************************************************************)
(* C15.  In pooled mode with basic, extended or external headers, after    *)
(* every call of Allocate, Free and FreeEmptyPages, a failed Allocate      *)
(* included, a data block of a live page is on the free list exactly when  *)
(* its header says it is not in use (for an external header: the header    *)
(* pointer is null or in_use of its MemBlockInfo is false).                *)
(***************************************************************************)
C15_OnFreeListIffFlagClear ==
    (Pooled /\ WithHeaders)
        => \A a \in LiveSlots : a \in FreeListWalk.nodes <=> ~FlagInUse(a)
(***************************************************************************)
(* C16.  In pooled and in bypass mode, after any sequence of Allocate and  *)
(* Free of held addresses: Allocations_ >= Deallocations_, ObjectsInUse_ = *)
(* Allocations_ - Deallocations_ and MostObjects_ >= ObjectsInUse_, as     *)
(* unsigned numbers; MostObjects_ is 0 after construction and each call    *)
(* leaves it the larger of what it was and the new ObjectsInUse_, so it    *)
(* never decreases and is the largest ObjectsInUse_ there has been.        *)
(***************************************************************************)
C16_CountersOrdered ==
    /\ [](/\ stats.Deallocations_ >= 0
          /\ stats.Allocations_ >= stats.Deallocations_
          /\ stats.ObjectsInUse_ = stats.Allocations_ - stats.Deallocations_
          /\ stats.MostObjects_ >= stats.ObjectsInUse_
          /\ stats.Allocations_ = 0 => stats.MostObjects_ = 0)
    /\ [][stats'.MostObjects_ = U32Max(stats.MostObjects_, stats'.ObjectsInUse_)]_vars

\* in bypass mode, an Allocate after a Free: fewer blocks out than there were
C16_Witness ==
    /\ config.UseCPPMemManager_
    /\ last.op = "Allocate" /\ last.err = NoError
    /\ stats.Deallocations_ >= 1
    /\ stats.ObjectsInUse_ < stats.MostObjects_
\* the bytes of the block at a after the first ptrSize
PastLink(a) == (a + ptrSize)..(a + stats.ObjectSize_ - 1)
\* in the bytes m, every byte of the block at a after the first ptrSize
\* reads pattern
Painted(m, a, pattern) == \A b \in PastLink(a) : m[b] = pattern

C18_BypassLeavesPagesAlone ==
    [][(config.UseCPPMemManager_ /\ last'.op \in {"Allocate", "Free"})
          => /\ UNCHANGED <<freeList, pageList, mem, heap>>
             /\ stats'.PagesInUse_ = stats.PagesInUse_
             /\ last'.err # E_NO_PAGES
             /\ last'.op = "Allocate"
                   => /\ stats'.Allocations_ = stats.Allocations_ + 1
                      /\ stats'.ObjectsInUse_ = stats.ObjectsInUse_ + 1
                      /\ stats'.Deallocations_ = stats.Deallocations_
             /\ (last'.op = "Free" /\ last'.arg \in held)
                   => /\ last'.err = NoError
                      /\ stats'.Deallocations_ = stats.Deallocations_ + 1
                      /\ stats'.ObjectsInUse_ = stats.ObjectsInUse_ - 1
                      /\ stats'.Allocations_ = stats.Allocations_]_vars

\* in bypass mode a held block has been released while another is held, the
\* page built by the constructor and its free list still there
C18_Witness ==
    /\ config.UseCPPMemManager_
    /\ last.op = "Free" /\ last.err = NoError /\ last.arg # 0
    /\ held # {}
    /\ stats.Allocations_ >= 2 /\ stats.ObjectsInUse_ = stats.Allocations_ - stats.Deallocations_
    /\ freeList # 0 /\ pageList # 0 /\ stats.PagesInUse_ = 1
\* A is 0, 1 or a power of two
AlignmentAllowed(A) == A = 0 \/ \E k \in 0..30 : A = 2 ^ k
\* the configuration is one the interface rules out
InvalidConfiguration ==
    stats.ObjectSize_ < ptrSize \/ ~AlignmentAllowed(config.Alignment_)

(***************************************************************************)
(* C19.  When ObjectSize is less than the size of a pointer, or Alignment_ *)
(* is not 0, 1 or a power of two, the constructor raises an exception and  *)
(* builds no page: no allocator with such a configuration has a page, and  *)
(* none answers a call.                                                    *)
(***************************************************************************)
C19_InvalidConfigurationIsRefused ==
    InvalidConfiguration
        => /\ last.op = "ObjectAllocator" /\ last.err \in OAExceptions
           /\ heap = {} /\ pageList = 0 /\ stats.PagesInUse_ = 0
\* where the claim puts the data block of slot i of the page at p
SlotStart(p, i) ==
    p + ptrSize + config.LeftAlignSize_ + config.HBlockInfo_.size_ + config.PadBytes_
      + i * objAdvancement
\* every live page starts at a multiple of Alignment_
BasesAligned == \A p \in heap : p % config.Alignment_ = 0

(***************************************************************************)
(* C20.  With Alignment_ = A > 1 and every page at a multiple of A, for    *)
(* every object size, header size, pad size and ObjectsPerPage_:           *)
(* ptrSize + LeftAlignSize_ + header size + PadBytes_ + i * the distance   *)
(* between blocks, added to the page address, is a multiple of A for each  *)
(* slot i; every address Allocate has returned is one of these, and so a   *)
(* multiple of A.                                                          *)
(***************************************************************************)
C20_ReturnedAddressesAligned ==
    (config.Alignment_ > 1 /\ BasesAligned)
        => /\ \A p \in heap, i \in 0..(config.ObjectsPerPage_ - 1) :
                 SlotStart(p, i) % config.Alignment_ = 0
           /\ \A a \in held :
                 /\ a % config.Alignment_ = 0
                 /\ \E p \in heap, i \in 0..(config.ObjectsPerPage_ - 1) : a = SlotStart(p, i)
           /\ (last.op = "Allocate" /\ last.err = NoError)
                 => last.ret \in held /\ last.ret % config.Alignment_ = 0

\* the three blocks of a page with header, pad and both alignment fillers
\* have been returned
C20_Witness ==
    /\ config.Alignment_ > 2 /\ BasesAligned
    /\ config.LeftAlignSize_ > 0 /\ config.InterAlignSize_ > 0
    /\ config.HBlockInfo_.size_ > 0 /\ config.PadBytes_ > 0
    /\ stats.ObjectSize_ > ptrSize
    /\ last.op = "Allocate" /\ last.err = NoError
    /\ Cardinality(held) = 3
\* the bytes that bring n up to the next multiple of A, for A > 0
UpTo(n, A) == (A - (n % A)) % A
\* header, pad, object, pad: a block without the filler that follows it
BlockBytes == config.HBlockInfo_.size_ + stats.ObjectSize_ + 2 * config.PadBytes_

(***************************************************************************)
(* C21.  As stated: with ObjectsPerPage_ = 1 the InterAlignSize_ the       *)
(* constructor leaves in the configuration is 0.                           *)
(***************************************************************************)
C21_SingleSlotInterAlignIsZero ==
    config.ObjectsPerPage_ = 1 => config.InterAlignSize_ = 0

(***************************************************************************)
(* C21, amended.  With ObjectsPerPage_ = 1 and Alignment_ = A > 0 the      *)
(* InterAlignSize_ in the configuration is what it is for any other        *)
(* ObjectsPerPage_: the bytes that bring ObjectSize + header size + 2 *    *)
(* PadBytes_ up to a multiple of A, zero or not.  It is only left out of   *)
(* the page: PageSize_ = ptrSize + LeftAlignSize_ + header + pad + object  *)
(* + pad.                                                                  *)
(***************************************************************************)
C21_SingleSlotInterAlignLeftOut ==
    config.ObjectsPerPage_ = 1
        => /\ config.Alignment_ > 0
                 => config.InterAlignSize_ = UpTo(BlockBytes, config.Alignment_)
           /\ config.Alignment_ = 0 => config.InterAlignSize_ = 0
           /\ stats.PageSize_ = ptrSize + config.LeftAlignSize_ + BlockBytes

\* the one block of a page has been returned; InterAlignSize_ is not 0
C21_Witness ==
    /\ config.ObjectsPerPage_ = 1 /\ config.Alignment_ > 1
    /\ config.InterAlignSize_ > 0
    /\ last.op = "Allocate" /\ last.err = NoError
    /\ held # {}

\* the configuration keeps a basic or an extended header in the page
InlineHeaders == Pooled /\ config.HBlockInfo_.type_ \in {hbBasic, hbExtended}
\* in the bytes m, the header of the block at a: all its bytes, and its
\* use counter (extended only), allocation number and flag
HeaderStart(a) == a - config.PadBytes_ - config.HBlockInfo_.size_
HeaderOf(m, a) == [i \in 0..(config.HBlockInfo_.size_ - 1) |-> m[HeaderStart(a) + i]]
FixedStart(a) ==
    IF config.HBlockInfo_.type_ = hbExtended
    THEN HeaderStart(a) + config.HBlockInfo_.additional_ + 2
    ELSE HeaderStart(a)
UseCounterOf(m, a) == ReadLE(m, HeaderStart(a) + config.HBlockInfo_.additional_, 2)
AllocNumOf(m, a) == ReadLE(m, FixedStart(a), 4)
FlagOf(m, a) == m[FixedStart(a) + 4]
\* the call that led to the second state of a step returned normally
Returned(op) == last'.op = op /\ last'.err = NoError
\* the block that call worked on
Target == IF last'.op = "Allocate" THEN last'.ret ELSE last'.arg

(***************************************************************************)
(* C22.  With basic or extended headers, Allocations_ counts the Allocates *)
(* that returned a block.  An Allocate that returns a block leaves in the  *)
(* header of that block the new value of Allocations_ and flag 1; a Free   *)
(* that returns leaves in the header of its block allocation number 0 and  *)
(* flag 0; neither changes a byte of the header of any other block.        *)
(***************************************************************************)
C22_HeaderHoldsAllocationNumber ==
    /\ [](InlineHeaders => stats.Allocations_ = Cardinality(held) + stats.Deallocations_)
    /\ [][InlineHeaders
            => /\ Returned("Allocate")
                    => /\ stats'.Allocations_ = stats.Allocations_ + 1
                       /\ AllocNumOf(mem', last'.ret) = stats'.Allocations_
                       /\ FlagOf(mem', last'.ret) = 1
               /\ (Returned("Free") /\ last'.arg # 0)
                    => /\ AllocNumOf(mem', last'.arg) = 0
                       /\ FlagOf(mem', last'.arg) = 0
               /\ \A a \in LiveSlots \ {Target} : HeaderOf(mem', a) = HeaderOf(mem, a)]_vars

\* the third Allocate has returned a block, after a Free, while another
\* block is held whose header has an earlier allocation number
C22_Witness ==
    /\ InlineHeaders
    /\ last.op = "Allocate" /\ last.err = NoError
    /\ stats.Allocations_ = 3 /\ stats.Deallocations_ >= 1
    /\ AllocNumOf(mem, last.ret) = 3
    /\ \E a \in held \ {last.ret} : AllocNumOf(mem, a) \in {1, 2} /\ FlagOf(mem, a) = 1

\* the sum of the use counters of the blocks S
RECURSIVE UseCounterSum(_)
UseCounterSum(S) ==
    IF S = {} THEN 0
    ELSE LET a == CHOOSE x \in S : TRUE
         IN  UseCounterOf(mem, a) + UseCounterSum(S \ {a})
\* the use counter of the block at a before the step; 0 when its page is
\* built by the step
UseCounterBefore(a) == IF a \in LiveSlots THEN UseCounterOf(mem, a) ELSE 0

(***************************************************************************)
(* C23.  With extended headers, the 2-byte use counter of a block is the   *)
(* number of times Allocate has returned that block since its page was     *)
(* built, modulo 2^16: it is 0 in a page just built, an Allocate that      *)
(* returns the block adds one to it, a Free of the block leaves it as it   *)
(* is, and no call changes the use counter of another block.  So, no page  *)
(* having been released, the use counters add up to Allocations_.          *)
(***************************************************************************)
C23_UseCounterCountsAcquires ==
    /\ [](config.HBlockInfo_.type_ = hbExtended
             => UseCounterSum(LiveSlots) = stats.Allocations_)
    /\ [][config.HBlockInfo_.type_ = hbExtended
            => /\ Returned("Allocate")
                    => UseCounterOf(mem', last'.ret)
                          = (UseCounterBefore(last'.ret) + 1) % 65536
               /\ (Returned("Free") /\ last'.arg # 0)
                    => UseCounterOf(mem', last'.arg) = UseCounterOf(mem, last'.arg)
               /\ \A a \in LiveSlots \ {Target} :
                     UseCounterOf(mem', a) = UseCounterOf(mem, a)
               /\ \A a \in LiveSlots' \ (LiveSlots \cup {Target}) :
                     UseCounterOf(mem', a) = 0]_vars

\* one block has been returned for the second time, another once
C23_Witness ==
    /\ config.HBlockInfo_.type_ = hbExtended
    /\ last.op = "Allocate" /\ last.err = NoError
    /\ \E a \in LiveSlots : UseCounterOf(mem, a) = 2
    /\ \E a \in LiveSlots : UseCounterOf(mem, a) = 1

\* the MemBlockInfo address in the header of the block at a
HeaderPointer(a) == ReadPtr(mem, HeaderStart(a))

(***************************************************************************)
(* C24.  With external headers, after every call: the header of a held     *)
(* block points to a live MemBlockInfo with in_use true and an alloc_num   *)
(* between 1 and Allocations_, Allocations_ itself for the block just      *)
(* returned; no two held blocks share one; the header pointer of a block   *)
(* that is not held is null; and every live MemBlockInfo is the one of a   *)
(* held block, so each has been deleted when its block was released.       *)
(***************************************************************************)
C24_DescriptorsMatchHeldBlocks ==
    (Pooled /\ config.HBlockInfo_.type_ = hbExternal)
        => /\ \A a \in held :
                 /\ HeaderPointer(a) \in DOMAIN descs
                 /\ descs[HeaderPointer(a)].in_use
                 /\ descs[HeaderPointer(a)].alloc_num \in 1..stats.Allocations_
           /\ \A a, b \in held : HeaderPointer(a) = HeaderPointer(b) => a = b
           /\ (last.op = "Allocate" /\ last.err = NoError)
                 => descs[HeaderPointer(last.ret)].alloc_num = stats.Allocations_
           /\ \A a \in LiveSlots \ held : HeaderPointer(a) = 0
           /\ DOMAIN descs = {HeaderPointer(a) : a \in held}


Range(seq) == {seq[i] : i \in 1..Len(seq)}
OncePerAddress(seq) == Cardinality(Range(seq)) = Len(seq)
Inspected(op) == Pooled /\ last.op = op

(***************************************************************************)
(* C25.  In pooled mode, after Allocate and Free of held addresses,        *)
(* DumpMemoryInUse returns normally, has called the callback exactly once  *)
(* for each address the client holds and for no other, and the count it    *)
(* returns is ObjectsInUse_ (the call itself changes nothing: it is const  *)
(* and the action leaves every allocator variable unchanged).              *)
(***************************************************************************)
C25_DumpReportsHeldBlocks ==
    Inspected("DumpMemoryInUse")
        => /\ last.err = NoError
           /\ OncePerAddress(last.called)
           /\ Range(last.called) = held
           /\ last.ret = stats.ObjectsInUse_

(***************************************************************************)
(* C26.  ValidatePages returns normally, has called the callback exactly   *)
(* once for each block of a listed page, free or in use, that has a byte   *)
(* other than PAD_PATTERN in its left or right pad bytes, and for no       *)
(* other; it returns the number of these blocks, which is 0 when PadBytes_ *)
(* is 0 (the call itself changes nothing: it is const and the action       *)
(* leaves every allocator variable unchanged).                             *)
(***************************************************************************)
C26_ValidateReportsDamagedPads ==
    Inspected("ValidatePages")
        => /\ last.err = NoError
           /\ OncePerAddress(last.called)
           /\ Range(last.called) = {a \in LiveSlots : PadCorrupted(a)}
           /\ last.ret = Cardinality({a \in LiveSlots : PadCorrupted(a)})
           /\ config.PadBytes_ = 0 => last.ret = 0

C26_Witness ==
    /\ Inspected("ValidatePages")
    /\ last.ret = 2
    /\ Range(last.called) \ held # {}
    /\ Range(last.called) \cap held # {}

HighestOf(S) == CHOOSE x \in S : \A y \in S : y <= x
Constructed == Pooled /\ last.op = "ObjectAllocator" /\ last.err = NoError
FirstOfPage == Returned("Allocate") /\ (last'.built \/ Constructed)
NextOfFreshPage ==
    /\ Returned("Allocate") /\ ~last'.built
    /\ last.op = "Allocate" /\ last.err = NoError
    /\ stats.Deallocations_ = 0

(***************************************************************************)
(* C27, as stated.  After CreatePage the free-list head is the lowest      *)
(* block of the new page: the first Allocate from a page just built        *)
(* returns the lowest block of the page, and while nothing has been        *)
(* released each further Allocate from the page returns the next block     *)
(* up.                                                                     *)
(***************************************************************************)
C27_FreshPageServesLowestFirst ==
    /\ [](Constructed => freeList = LowestOf(SlotsOf(pageList)))
    /\ [][Pooled =>
            /\ FirstOfPage => last'.ret = LowestOf(SlotsOf(pageList'))
            /\ NextOfFreshPage => last'.ret = last.ret + objAdvancement]_vars

(***************************************************************************)
(* C27, amended.  After CreatePage the free-list head is the highest       *)
(* block of the new page: the first Allocate from a page just built        *)
(* returns the highest block of the page, and while nothing has been       *)
(* released each further Allocate from the page returns the next block     *)
(* down.                                                                   *)
(***************************************************************************)
C27_FreshPageServesHighestFirst ==
    /\ [](Constructed => freeList = HighestOf(SlotsOf(pageList)))
    /\ [][Pooled =>
            /\ FirstOfPage => last'.ret = HighestOf(SlotsOf(pageList'))
            /\ NextOfFreshPage => last'.ret = last.ret - objAdvancement]_vars

C27_Witness ==
    /\ Pooled /\ config.ObjectsPerPage_ > 1
    /\ last.op = "Allocate" /\ last.err = NoError /\ ~last.built
    /\ stats.Deallocations_ = 0
    /\ last.ret = LowestOf(SlotsOf(pageList))
    /\ last.ret + objAdvancement \in held

(***************************************************************************)
(* C28.  With external headers, an Allocate that raises E_NO_MEMORY leaves *)
(* the MemBlockInfo records as they were: the record it allocated before   *)
(* the label buffer was refused has been deleted.                          *)
(***************************************************************************)
C28_FailedAllocateKeepsNoDescriptor ==
    [][(Pooled /\ config.HBlockInfo_.type_ = hbExternal
            /\ last'.op = "Allocate" /\ last'.err = E_NO_MEMORY)
        => DOMAIN descs' = DOMAIN descs]_vars

AllAre(m, from, n, pattern) == \A b \in from..(from + n - 1) : b \in DOMAIN m /\ m[b] = pattern
\* the block of slot i of the page at p, laid out as header, pad, object,
\* pad; after it the filler between blocks, unless it is the last
SlotLaidOut(p, i) ==
    LET a == SlotStart(p, i)
    IN  /\ AllAre(mem, HeaderStart(a), config.HBlockInfo_.size_, 0)
        /\ AllAre(mem, a - config.PadBytes_, config.PadBytes_, PAD_PATTERN)
        /\ ReadPtr(mem, a) = IF i = 0 THEN 0 ELSE SlotStart(p, i - 1)
        /\ AllAre(mem, a + ptrSize, stats.ObjectSize_ - ptrSize, UNALLOCATED_PATTERN)
        /\ AllAre(mem, a + stats.ObjectSize_, config.PadBytes_, PAD_PATTERN)
        /\ i < config.ObjectsPerPage_ - 1
              => /\ AllAre(mem, a + stats.ObjectSize_ + config.PadBytes_,
                           config.InterAlignSize_, ALIGN_PATTERN)
                 /\ SlotStart(p, i + 1) = a + stats.ObjectSize_ + config.PadBytes_
                        + config.InterAlignSize_ + config.HBlockInfo_.size_ + config.PadBytes_
        /\ i = config.ObjectsPerPage_ - 1
              => a + stats.ObjectSize_ + config.PadBytes_ = p + stats.PageSize_

(***************************************************************************)
(* C29.  CreatePage, called by the constructor, stays inside the page and  *)
(* lays it out as: the link to the next page, LeftAlignSize_ bytes of      *)
(* ALIGN_PATTERN, then ObjectsPerPage_ blocks, each a zeroed header,       *)
(* PadBytes_ of PAD_PATTERN, the object (the free-list link, then          *)
(* UNALLOCATED_PATTERN), PadBytes_ of PAD_PATTERN, and between two blocks  *)
(* InterAlignSize_ bytes of ALIGN_PATTERN; the last block ends where the   *)
(* page ends, at PageSize_ = ptrSize + LeftAlignSize_ + ObjectsPerPage_ *  *)
(* the distance between blocks - InterAlignSize_.                          *)
(***************************************************************************)
C29_PageLaidOutExactly ==
    (Pooled /\ last.op = "ObjectAllocator")
        => /\ last.err = NoError
           /\ stats.PageSize_ = ptrSize + config.LeftAlignSize_
                                  + config.ObjectsPerPage_ * objAdvancement
                                  - config.InterAlignSize_
           /\ DOMAIN mem = pageList..(pageList + stats.PageSize_ - 1)
           /\ ReadPtr(mem, pageList) = 0
           /\ AllAre(mem, pageList + ptrSize, config.LeftAlignSize_, ALIGN_PATTERN)
           /\ \A i \in 0..(config.ObjectsPerPage_ - 1) : SlotLaidOut(pageList, i)
           /\ freeList = SlotStart(pageList, config.ObjectsPerPage_ - 1)
           /\ stats.FreeObjects_ = config.ObjectsPerPage_

Released == Pooled /\ last.op = "Free" /\ last.err = NoError /\ last.arg # 0

(***************************************************************************)
(* C30.  The free list is a stack.  In pooled mode a Free that returns     *)
(* puts its block at the head, on top of the previous head; an Allocate    *)
(* that returns while the list is not empty returns the head, builds no    *)
(* page and leaves the block beneath as the new head.  So the Allocate     *)
(* that follows a Free of p returns p, and blocks released in the order    *)
(* p1..pn come back in the order pn..p1.                                   *)
(***************************************************************************)
C30_FreeListIsAStack ==
    /\ [](Released => freeList = last.arg)
    /\ [][Pooled =>
            /\ (Returned("Free") /\ last'.arg # 0)
                  => freeList' = last'.arg /\ ReadPtr(mem', last'.arg) = freeList
            /\ (Returned("Allocate") /\ freeList # 0)
                  => /\ last'.ret = freeList /\ ~last'.built
                     /\ freeList' = ReadPtr(mem, freeList)
            /\ (Returned("Allocate") /\ Released) => last'.ret = last.arg]_vars

\* two blocks were released, the second has come back and the first is the
\* head again
C30_Witness ==
    /\ Pooled /\ last.op = "Allocate" /\ last.err = NoError /\ ~last.built
    /\ stats.Deallocations_ = 2 /\ stats.ObjectsInUse_ = 1
    /\ last.pre.head = last.ret
    /\ freeList # 0 /\ freeList # last.ret /\ freeList \notin held

CheckedFree == last'.op = "Free" /\ Pooled /\ config.DebugOn_

(***************************************************************************)
(* C31.  With the debug checks on, Free reports the first check that       *)
(* fails in the order double free, range, alignment, padding: an address   *)
(* on the free list raises E_MULTIPLE_FREE even when its pad bytes are     *)
(* damaged, an address inside a page that is not the data block of a slot  *)
(* raises E_BAD_BOUNDARY whatever the bytes next to it hold, and a Free    *)
(* that raises has written no byte and pushed nothing on the free list.    *)
(***************************************************************************)
C31_ChecksInOrderBeforeAnyWrite ==
    [][CheckedFree =>
          /\ (last'.arg \in FreeListWalk.nodes /\ PadCorrupted(last'.arg))
                => last'.err = E_MULTIPLE_FREE
          /\ (last'.arg \notin FreeListWalk.nodes /\ InPageNotSlot(last'.arg))
                => last'.err = E_BAD_BOUNDARY
          /\ last'.err \in OAExceptions => UNCHANGED <<mem, freeList, stats, descs>>]_vars

\* the nodes of a list in order, read as far as live storage and no repeat allow
RECURSIVE SeqWalk(_, _)
SeqWalk(a, seq) ==
    IF a = 0 THEN seq
    ELSE IF a \in Range(seq) \/ ~Live(Cur, a, ptrSize) THEN Append(seq, a)
    ELSE SeqWalk(ReadPtr(mem, a), Append(seq, a))
FreeListSeq == SeqWalk(freeList, << >>)
PageListSeq == SeqWalk(pageList, << >>)
RECURSIVE Only(_, _)
Only(seq, S) ==
    IF seq = << >> THEN << >>
    ELSE IF Head(seq) \in S THEN << Head(seq) >> \o Only(Tail(seq), S)
    ELSE Only(Tail(seq), S)
\* header, pad and object bytes of the block whose data block is at a
BlockBytesOf(a) == HeaderStart(a)..(a + stats.ObjectSize_ + config.PadBytes_ - 1)

(***************************************************************************)
(* C32.  A FreeEmptyPages that returns leaves what belongs to the pages it *)
(* keeps as it was: the free list afterwards, walked from its head, holds  *)
(* the free blocks of the kept pages in the order they had before, the     *)
(* page list holds the kept pages in the order they had before, and no     *)
(* header, pad or object byte of a kept page has changed.                  *)
(***************************************************************************)
C32_KeptPagesUntouched ==
    [][(Pooled /\ Returned("FreeEmptyPages") /\ FreeListWalk.clean /\ PageListWalk.clean)
          => /\ PageListWalk'.clean
             /\ PageListSeq' = Only(PageListSeq, heap')
             /\ LET kept == UNION {SlotsOf(p) : p \in heap'}
                IN  /\ Only(FreeListSeq', kept) = Only(FreeListSeq, kept)
                    /\ \A n \in kept : n \in FreeListWalk.nodes
                          => FreeListWalk'.clean /\ n \in FreeListWalk'.nodes
                    /\ \A a \in kept : \A b \in BlockBytesOf(a) : mem'[b] = mem[b]]_vars

(***************************************************************************)
(* C33.  In pooled mode, after any sequence of Allocate, Free and          *)
(* FreeEmptyPages, the free list ends at null, FreeObjects_ is the number  *)
(* of blocks on it, and it is empty exactly when FreeObjects_ is 0.        *)
(***************************************************************************)
C33_FreeObjectsCountsFreeList ==
    (Pooled /\ Running)
        => /\ FreeListWalk.clean
           /\ stats.FreeObjects_ = Cardinality(FreeListWalk.nodes)
           /\ freeList = 0 <=> stats.FreeObjects_ = 0

(***************************************************************************)
(* C34.  With external headers, a FreeEmptyPages that is granted its queue *)
(* and finds a page none of whose blocks is held (every header pointer on  *)
(* it null) returns normally, without reading through a null header        *)
(* pointer, and has released that page.                                    *)
(***************************************************************************)
C34_EmptyPageWithNullHeadersIsReleased ==
    [][(Pooled /\ config.HBlockInfo_.type_ = hbExternal
           /\ last'.op = "FreeEmptyPages" /\ last'.err # E_NO_MEMORY
           /\ FreeListWalk.clean /\ PageListWalk.clean
           /\ \E p \in EmptyPages : \A a \in SlotsOf(p) : HeaderPointer(a) = 0)
          => /\ last'.err = NoError
             /\ EmptyPages \cap heap' = {}]_vars

(***************************************************************************)
(* C35.  In pooled mode the free list ends at null with no block on it     *)
(* twice in every reachable state, those reached with the debug checks off *)
(* by two Frees of one address among them, and so no walk of the free list *)
(* runs for ever.                                                          *)
(***************************************************************************)
C35_FreeListEndsAtNull ==
    Pooled => FreeListWalk.clean /\ last.err # Diverges

(***************************************************************************)
(* C36.  In bypass mode (UseCPPMemManager_) the unsigned FreeObjects_      *)
(* never wraps below zero and is the number of blocks on the free list,    *)
(* which no call touches, however many blocks are outstanding.             *)
(***************************************************************************)
C36_BypassFreeObjectsCountsFreeList ==
    config.UseCPPMemManager_
        => /\ Wraps(stats.FreeObjects_) = 0
           /\ stats.FreeObjects_ = Cardinality(FreeListWalk.nodes)
====
